---------------------------- MODULE Spec2Model ----------------------------
(***************************************************************************)
(* BPM (Dutch vehicle import tax) calculation with keuzerecht: the         *)
(* optimal-regime selection of modal-app/bpm_calculator.py over the        *)
(* regime catalog of modal-app/constants.py.                               *)
(*                                                                         *)
(* Units.  Money is held in euro cents (the code rounds every amount to    *)
(* two decimals).  A depreciation percentage is held in hundredths of a    *)
(* percent (12% = 1200), which represents every table value exactly.       *)
(* A diesel rate is held in cents per gram (114.83 = 11483).               *)
(***************************************************************************)
EXTENDS Integers, Sequences, FiniteSets, TLC

\* float("inf") of the open-ended last table rows and of the initial
\* best_total_gross: above every amount and every CO2 value the model reaches.
Inf == 2147483647

\* ------------------------------------------------------------------------
\* Bounds of the model's inputs
\* ------------------------------------------------------------------------

\* Number of callers that invoke calculate_bpm at the same time.
NumCalls == 2

\* Ages of the depreciation lookup range over 0 .. MaxAgeMonths.
MaxAgeMonths == 1200

\* Largest timeout, in seconds, run_apify_actor is called with
MaxTimeout == 5

\* Longest time, in seconds, one HTTP request takes
MaxRequestTime == 1

\* Most comparables the platforms return together
MaxComparables == 2

\* CO2 inputs range over -NegCO2 .. MaxCO2 g/km (the parameter is an int).
MaxCO2 == 210
NegCO2 == 2

\* ------------------------------------------------------------------------
\* constants.py
\* ------------------------------------------------------------------------

CO2_BRACKETS ==
    << [min |-> 0, max |-> 77, threshold |-> 0, rate |-> 2, base |-> 687],
       [min |-> 78, max |-> 100, threshold |-> 77, rate |-> 82, base |-> 841],
       [min |-> 101, max |-> 139, threshold |-> 100, rate |-> 181, base |-> 2727],
       [min |-> 140, max |-> 155, threshold |-> 139, rate |-> 297, base |-> 9786],
       [min |-> 156, max |-> Inf, threshold |-> 155, rate |-> 594, base |-> 14538] >>

HISTORICAL_BPM_REGIMES ==
    << [year |-> 2020, label |-> "2020 H2 (WLTP)", verified |-> TRUE, ev_exempt |-> TRUE,
         co2_brackets |->
           << [min |-> 0, max |-> 90, threshold |-> 0, rate |-> 1, base |-> 366],
              [min |-> 91, max |-> 116, threshold |-> 90, rate |-> 57, base |-> 456],
              [min |-> 117, max |-> 162, threshold |-> 116, rate |-> 124, base |-> 1938],
              [min |-> 163, max |-> 180, threshold |-> 162, rate |-> 204, base |-> 7642],
              [min |-> 181, max |-> Inf, threshold |-> 180, rate |-> 408, base |-> 11314] >>,
         diesel_threshold |-> 59, diesel_subtract |-> 59, diesel_rate |-> 8995],
       [year |-> 2021, label |-> "2021 (WLTP)", verified |-> FALSE, ev_exempt |-> TRUE,
         co2_brackets |->
           << [min |-> 0, max |-> 88, threshold |-> 0, rate |-> 1, base |-> 366],
              [min |-> 89, max |-> 113, threshold |-> 88, rate |-> 59, base |-> 454],
              [min |-> 114, max |-> 158, threshold |-> 113, rate |-> 131, base |-> 1929],
              [min |-> 159, max |-> 175, threshold |-> 158, rate |-> 222, base |-> 7824],
              [min |-> 176, max |-> Inf, threshold |-> 175, rate |-> 443, base |-> 11598] >>,
         diesel_threshold |-> 62, diesel_subtract |-> 62, diesel_rate |-> 9300],
       [year |-> 2022, label |-> "2022 (WLTP)", verified |-> FALSE, ev_exempt |-> TRUE,
         co2_brackets |->
           << [min |-> 0, max |-> 85, threshold |-> 0, rate |-> 2, base |-> 366],
              [min |-> 86, max |-> 109, threshold |-> 85, rate |-> 61, base |-> 536],
              [min |-> 110, max |-> 154, threshold |-> 109, rate |-> 137, base |-> 2000],
              [min |-> 155, max |-> 171, threshold |-> 154, rate |-> 239, base |-> 8165],
              [min |-> 172, max |-> Inf, threshold |-> 171, rate |-> 479, base |-> 12228] >>,
         diesel_threshold |-> 65, diesel_subtract |-> 65, diesel_rate |-> 9800],
       [year |-> 2023, label |-> "2023 (WLTP)", verified |-> FALSE, ev_exempt |-> TRUE,
         co2_brackets |->
           << [min |-> 0, max |-> 83, threshold |-> 0, rate |-> 2, base |-> 400],
              [min |-> 84, max |-> 107, threshold |-> 83, rate |-> 71, base |-> 566],
              [min |-> 108, max |-> 149, threshold |-> 107, rate |-> 152, base |-> 2270],
              [min |-> 150, max |-> 166, threshold |-> 149, rate |-> 257, base |-> 8654],
              [min |-> 167, max |-> Inf, threshold |-> 166, rate |-> 514, base |-> 13023] >>,
         diesel_threshold |-> 67, diesel_subtract |-> 67, diesel_rate |-> 10200],
       [year |-> 2024, label |-> "2024 (WLTP)", verified |-> TRUE, ev_exempt |-> TRUE,
         co2_brackets |->
           << [min |-> 0, max |-> 80, threshold |-> 0, rate |-> 2, base |-> 440],
              [min |-> 81, max |-> 104, threshold |-> 80, rate |-> 76, base |-> 600],
              [min |-> 105, max |-> 145, threshold |-> 104, rate |-> 167, base |-> 2424],
              [min |-> 146, max |-> 161, threshold |-> 145, rate |-> 274, base |-> 9271],
              [min |-> 162, max |-> Inf, threshold |-> 161, rate |-> 549, base |-> 13655] >>,
         diesel_threshold |-> 70, diesel_subtract |-> 69, diesel_rate |-> 10607],
       [year |-> 2025, label |-> "2025 (WLTP)", verified |-> TRUE, ev_exempt |-> FALSE,
         co2_brackets |->
           << [min |-> 0, max |-> 79, threshold |-> 0, rate |-> 2, base |-> 667],
              [min |-> 80, max |-> 101, threshold |-> 79, rate |-> 79, base |-> 825],
              [min |-> 102, max |-> 141, threshold |-> 101, rate |-> 173, base |-> 2563],
              [min |-> 142, max |-> 157, threshold |-> 141, rate |-> 284, base |-> 9483],
              [min |-> 158, max |-> Inf, threshold |-> 157, rate |-> 568, base |-> 14027] >>,
         diesel_threshold |-> 70, diesel_subtract |-> 69, diesel_rate |-> 10987],
       [year |-> 2026, label |-> "2026 (WLTP)", verified |-> TRUE, ev_exempt |-> FALSE,
         co2_brackets |->
           << [min |-> 0, max |-> 77, threshold |-> 0, rate |-> 2, base |-> 687],
              [min |-> 78, max |-> 100, threshold |-> 77, rate |-> 82, base |-> 841],
              [min |-> 101, max |-> 139, threshold |-> 100, rate |-> 181, base |-> 2727],
              [min |-> 140, max |-> 155, threshold |-> 139, rate |-> 297, base |-> 9786],
              [min |-> 156, max |-> Inf, threshold |-> 155, rate |-> 594, base |-> 14538] >>,
         diesel_threshold |-> 70, diesel_subtract |-> 69, diesel_rate |-> 11483] >>

DEPRECIATION_TABLE ==
    << [min_months |-> 0, max_months |-> 1, base_percentage |-> 0, monthly_addition |-> 1200],
       [min_months |-> 1, max_months |-> 3, base_percentage |-> 1200, monthly_addition |-> 400],
       [min_months |-> 3, max_months |-> 5, base_percentage |-> 2000, monthly_addition |-> 350],
       [min_months |-> 5, max_months |-> 9, base_percentage |-> 2700, monthly_addition |-> 150],
       [min_months |-> 9, max_months |-> 18, base_percentage |-> 3300, monthly_addition |-> 100],
       [min_months |-> 18, max_months |-> 30, base_percentage |-> 4200, monthly_addition |-> 75],
       [min_months |-> 30, max_months |-> 42, base_percentage |-> 5100, monthly_addition |-> 50],
       [min_months |-> 42, max_months |-> 54, base_percentage |-> 5700, monthly_addition |-> 42],
       [min_months |-> 54, max_months |-> 66, base_percentage |-> 6200, monthly_addition |-> 42],
       [min_months |-> 66, max_months |-> 78, base_percentage |-> 6700, monthly_addition |-> 42],
       [min_months |-> 78, max_months |-> 90, base_percentage |-> 7200, monthly_addition |-> 25],
       [min_months |-> 90, max_months |-> 102, base_percentage |-> 7500, monthly_addition |-> 25],
       [min_months |-> 102, max_months |-> 114, base_percentage |-> 7800, monthly_addition |-> 25],
       [min_months |-> 114, max_months |-> Inf, base_percentage |-> 8100, monthly_addition |-> 19] >>

DIESEL_SURCHARGE_RATE == 11483
DIESEL_SURCHARGE_THRESHOLD == 70
DIESEL_SURCHARGE_SUBTRACT == 69

\* ------------------------------------------------------------------------
\* Strings (utils.normalize_fuel_type works on substrings): a string is a
\* sequence of one-character strings.
\* ------------------------------------------------------------------------

UpperChars ==
    << "A","B","C","D","E","F","G","H","I","J","K","L","M",
       "N","O","P","Q","R","S","T","U","V","W","X","Y","Z" >>

LowerChars ==
    << "a","b","c","d","e","f","g","h","i","j","k","l","m",
       "n","o","p","q","r","s","t","u","v","w","x","y","z" >>

\* str.lower() on one character
LowerChar(c) ==
    IF \E i \in 1..Len(UpperChars) : UpperChars[i] = c
    THEN LowerChars[CHOOSE i \in 1..Len(UpperChars) : UpperChars[i] = c]
    ELSE c

\* str.lower()
lower(s) == [i \in 1..Len(s) |-> LowerChar(s[i])]

\* str.strip(): leading and trailing whitespace removed
strip(s) ==
    LET NonWs == {i \in 1..Len(s) : s[i] # " "}
    IN  IF NonWs = {} THEN << >>
        ELSE SubSeq(s, CHOOSE i \in NonWs : \A j \in NonWs : i <= j,
                       CHOOSE i \in NonWs : \A j \in NonWs : i >= j)

\* Python's `term in fuel_lower` on strings: substring containment
Contains(s, term) ==
    \E i \in 0..(Len(s) - Len(term)) : SubSeq(s, i + 1, i + Len(term)) = term

\* any(term in fuel_lower for term in terms)
AnyIn(terms, s) == \E k \in 1..Len(terms) : Contains(s, terms[k])

hybrid_terms ==
    << <<"h","y","b","r","i","d">>,
       <<"h","y","b","r","i","d","e">>,
       <<"p","l","u","g","-","i","n">>,
       <<"p","h","e","v">>,
       <<"p","l","u","g","i","n">>,
       <<"p","l","u","g","i","n","_","h","y","b","r","i","d">>,
       <<"m","i","l","d","_","h","y","b","r","i","d">>,
       <<"p","l","u","g","_","i","n">> >>

hybrid_combos ==
    << <<"e","l","e","k","t","r","o","/","b","e","n","z","i","n">>,
       <<"b","e","n","z","i","n","/","e","l","e","k","t","r","o">>,
       <<"e","l","e","k","t","r","o","/","d","i","e","s","e","l">>,
       <<"d","i","e","s","e","l","/","e","l","e","k","t","r","o">>,
       <<"e","l","e","c","t","r","i","c","/","p","e","t","r","o","l">>,
       <<"p","e","t","r","o","l","/","e","l","e","c","t","r","i","c">>,
       <<"e","l","e","c","t","r","i","c","/","d","i","e","s","e","l">>,
       <<"d","i","e","s","e","l","/","e","l","e","c","t","r","i","c">>,
       <<"b","e","n","z","i","n","e","/","e","l","e","k","t","r","o">>,
       <<"e","l","e","k","t","r","o","/","b","e","n","z","i","n","e">>,
       <<"g","a","s","o","l","i","n","e","/","e","l","e","c","t","r","i","c">>,
       <<"e","l","e","c","t","r","i","c","/","g","a","s","o","l","i","n","e">> >>

electric_terms ==
    << <<"e","l","e","c","t","r","i","c">>,
       <<"e","l","e","k","t","r","i","s","c","h">>,
       <<"e","l","e","k","t","r","o">>,
       <<"e","v">>,
       <<"b","a","t","t","e","r","y"," ","e","l","e","c","t","r","i","c">>,
       <<"b","e","v">>,
       <<"e","l","e","c","t","r","o">> >>

diesel_terms ==
    << <<"d","i","e","s","e","l">>,
       <<"d","i","e","s","e","l"," ","(","d","i","e","s","e","l",")">> >>

petrol_terms ==
    << <<"p","e","t","r","o","l">>,
       <<"b","e","n","z","i","n","e">>,
       <<"b","e","n","z","i","n">>,
       <<"g","a","s","o","l","i","n","e">>,
       <<"p","e","t","r","o","l"," ","(","g","a","s","o","l","i","n","e",")">> >>

lpg_terms ==
    << <<"l","p","g">>,
       <<"g","a","s">>,
       <<"a","u","t","o","g","a","s">> >>

has_electric_terms ==
    << <<"e","l","e","k","t","r","o">>, <<"e","l","e","c","t","r","i","c">>, <<"e","l","e","k","t","r","i","s","c","h">>, <<"e","l","e","c","t","r","o">> >>

has_combustion_terms ==
    << <<"b","e","n","z","i","n">>, <<"d","i","e","s","e","l">>, <<"p","e","t","r","o","l">>, <<"g","a","s","o","l","i","n","e">>, <<"b","e","n","z","i","n","e">> >>

\* ------------------------------------------------------------------------
\* utils.py
\* ------------------------------------------------------------------------

\* Mutant of calculate_vehicle_age_months: the month is also taken off when
\* now falls on the registration's day of the month.
calculate_vehicle_age_months_day_le(first_registration_date, now_) ==
    LET months0 == (now_.year - first_registration_date.year) * 12
                   + (now_.month - first_registration_date.month)
        months  == IF now_.day <= first_registration_date.day
                   THEN months0 - 1 ELSE months0
    IN  IF months > 0 THEN months ELSE 0

\* Whole months between the registration date and now, never negative.
calculate_vehicle_age_months(first_registration_date, now_) ==
    LET months0 == (now_.year - first_registration_date.year) * 12
                   + (now_.month - first_registration_date.month)
        months  == IF now_.day < first_registration_date.day
                   THEN months0 - 1 ELSE months0
    IN  IF months > 0 THEN months ELSE 0

\* Raw fuel string to one of "petrol", "diesel", "electric", "hybrid", "lpg".
normalize_fuel_type(fuel) ==
    LET fuel_lower     == strip(lower(fuel))
        has_electric   == AnyIn(has_electric_terms, fuel_lower)
        has_combustion == AnyIn(has_combustion_terms, fuel_lower)
    IN  IF AnyIn(hybrid_terms, fuel_lower) THEN "hybrid"
        ELSE IF AnyIn(hybrid_combos, fuel_lower) THEN "hybrid"
        ELSE IF has_electric /\ has_combustion THEN "hybrid"
        ELSE IF AnyIn(electric_terms, fuel_lower) THEN "electric"
        ELSE IF AnyIn(diesel_terms, fuel_lower) THEN "diesel"
        ELSE IF AnyIn(petrol_terms, fuel_lower) THEN "petrol"
        ELSE IF AnyIn(lpg_terms, fuel_lower) THEN "lpg"
        ELSE "petrol"

\* ------------------------------------------------------------------------
\* bpm_calculator.py: the pure functions
\* ------------------------------------------------------------------------

\* Index of the first row of a table that matches, 0 when none does (the
\* for loop with an early return); matching is the set of matching indices.
FirstIndex(matching) ==
    IF matching # {}
    THEN CHOOSE i \in matching : \A j \in matching : i <= j
    ELSE 0

\* Mutant of BracketBpm: the rate is applied from the bracket's min instead
\* of its threshold.
BracketBpm_from_min(co2_gkm, bracket) ==
    ((co2_gkm - bracket.min) * bracket.rate + bracket.base) * 100

\* Mutant of BracketBpm: the base is added before the multiplication.
BracketBpm_precedence(co2_gkm, bracket) ==
    (co2_gkm - bracket.threshold) * (bracket.rate + bracket.base) * 100

\* (co2 - threshold) * rate + base of one bracket, in cents
BracketBpm(co2_gkm, bracket) ==
    ((co2_gkm - bracket.threshold) * bracket.rate + bracket.base) * 100

\* Mutant of BracketMatches: the upper end of a bracket is excluded.
BracketMatches_strict_max(co2_gkm, bracket) ==
    bracket.min <= co2_gkm /\ co2_gkm < bracket.max

\* bracket["min"] <= co2_gkm <= bracket["max"]
BracketMatches(co2_gkm, bracket) ==
    bracket.min <= co2_gkm /\ co2_gkm <= bracket.max

\* Gross BPM (cents) from a bracket table: the first matching bracket, else
\* the last bracket's formula.
calculate_gross_bpm_for_brackets(co2_gkm, brackets) ==
    LET i == FirstIndex({k \in 1..Len(brackets) :
                            BracketMatches(co2_gkm, brackets[k])})
    IN  IF i # 0 THEN BracketBpm(co2_gkm, brackets[i])
        ELSE BracketBpm(co2_gkm, brackets[Len(brackets)])

\* Gross BPM under the current (2026) table
calculate_gross_bpm(co2_gkm) ==
    calculate_gross_bpm_for_brackets(co2_gkm, CO2_BRACKETS)

\* Mutant of calculate_diesel_surcharge_for_regime: the threshold is used
\* where the formula subtracts co2_subtract.
calculate_diesel_surcharge_conflated(co2_gkm, fuel, threshold, subtract, rate) ==
    IF fuel # "diesel" THEN 0
    ELSE IF co2_gkm <= threshold THEN 0
    ELSE (co2_gkm - threshold) * rate

\* Diesel surcharge (cents) under one regime's rule
calculate_diesel_surcharge_for_regime(co2_gkm, fuel, threshold, subtract, rate) ==
    IF fuel # "diesel" THEN 0
    ELSE IF co2_gkm <= threshold THEN 0
    ELSE (co2_gkm - subtract) * rate

\* Diesel surcharge under the current (2026) rule
calculate_diesel_surcharge(co2_gkm, fuel) ==
    calculate_diesel_surcharge_for_regime(co2_gkm, fuel,
        DIESEL_SURCHARGE_THRESHOLD, DIESEL_SURCHARGE_SUBTRACT, DIESEL_SURCHARGE_RATE)

\* min_months <= age_months <= max_months
DepreciationMatches(age, row) ==
    row.min_months <= age /\ age <= row.max_months

\* Mutant of get_depreciation_percentage: the cap at 100 is missing.
get_depreciation_percentage_uncapped(age) ==
    LET i    == FirstIndex({k \in 1..Len(DEPRECIATION_TABLE) :
                               DepreciationMatches(age, DEPRECIATION_TABLE[k])})
        last == DEPRECIATION_TABLE[Len(DEPRECIATION_TABLE)]
    IN  IF i # 0
        THEN DEPRECIATION_TABLE[i].base_percentage
             + (age - DEPRECIATION_TABLE[i].min_months)
               * DEPRECIATION_TABLE[i].monthly_addition
        ELSE last.base_percentage + 12 * last.monthly_addition

\* Mutant of get_depreciation_percentage: the months are counted from 0
\* instead of from the row's min_months.
get_depreciation_percentage_from_zero(age) ==
    LET i    == FirstIndex({k \in 1..Len(DEPRECIATION_TABLE) :
                               DepreciationMatches(age, DEPRECIATION_TABLE[k])})
        last == DEPRECIATION_TABLE[Len(DEPRECIATION_TABLE)]
        dep  == IF i # 0
                THEN DEPRECIATION_TABLE[i].base_percentage
                     + age * DEPRECIATION_TABLE[i].monthly_addition
                ELSE last.base_percentage + 12 * last.monthly_addition
    IN  IF dep < 10000 THEN dep ELSE 10000

\* Depreciation (hundredths of a percent) from the forfaitaire table
get_depreciation_percentage(age) ==
    LET i    == FirstIndex({k \in 1..Len(DEPRECIATION_TABLE) :
                               DepreciationMatches(age, DEPRECIATION_TABLE[k])})
        last == DEPRECIATION_TABLE[Len(DEPRECIATION_TABLE)]
        dep  == IF i # 0
                THEN DEPRECIATION_TABLE[i].base_percentage
                     + (age - DEPRECIATION_TABLE[i].min_months)
                       * DEPRECIATION_TABLE[i].monthly_addition
                ELSE last.base_percentage + 12 * last.monthly_addition
    IN  IF dep < 10000 THEN dep ELSE 10000

\* Mutant of calculate_bpm_for_regime: no exemption of electric vehicles.
calculate_bpm_for_regime_no_exemption(co2_gkm, fuel, regime) ==
    LET g == calculate_gross_bpm_for_brackets(co2_gkm, regime.co2_brackets)
        d == calculate_diesel_surcharge_for_regime(co2_gkm, fuel,
                 regime.diesel_threshold, regime.diesel_subtract,
                 regime.diesel_rate)
    IN  << g, d, g + d >>

\* <<gross_bpm, diesel_surcharge, total_gross>> of one regime, with the
\* exemption of electric vehicles
calculate_bpm_for_regime(co2_gkm, fuel, regime) ==
    IF fuel = "electric" /\ regime.ev_exempt THEN << 0, 0, 0 >>
    ELSE LET g == calculate_gross_bpm_for_brackets(co2_gkm, regime.co2_brackets)
             d == calculate_diesel_surcharge_for_regime(co2_gkm, fuel,
                      regime.diesel_threshold, regime.diesel_subtract,
                      regime.diesel_rate)
         IN  << g, d, g + d >>

\* Mutant of get_applicable_regimes: strict comparison, the registration
\* year's own regime is dropped.
get_applicable_regimes_strict(first_registration_date) ==
    LET det_year   == first_registration_date.year
        start_year == IF det_year > 2020 THEN det_year ELSE 2020
    IN  SelectSeq([i \in 1..Len(HISTORICAL_BPM_REGIMES) |-> i],
                  LAMBDA i : HISTORICAL_BPM_REGIMES[i].year > start_year)

\* Mutant of get_applicable_regimes: the registration year is ignored, every
\* regime from 2020 on is applicable.
get_applicable_regimes_from_2020(first_registration_date) ==
    SelectSeq([i \in 1..Len(HISTORICAL_BPM_REGIMES) |-> i],
              LAMBDA i : HISTORICAL_BPM_REGIMES[i].year >= 2020)

\* Catalog indices of the regimes with year >= max(det_year, 2020), in
\* catalog order
get_applicable_regimes(first_registration_date) ==
    LET det_year   == first_registration_date.year
        start_year == IF det_year > 2020 THEN det_year ELSE 2020
    IN  SelectSeq([i \in 1..Len(HISTORICAL_BPM_REGIMES) |-> i],
                  LAMBDA i : HISTORICAL_BPM_REGIMES[i].year >= start_year)

\* Mutant of regime_2026: the baseline is looked up under the wrong year.
regime_2026_wrong_year ==
    FirstIndex({i \in 1..Len(HISTORICAL_BPM_REGIMES) :
                    HISTORICAL_BPM_REGIMES[i].year = 2025})

\* next(r for r in HISTORICAL_BPM_REGIMES if r["year"] == 2026), as an index
regime_2026 ==
    FirstIndex({i \in 1..Len(HISTORICAL_BPM_REGIMES) :
                    HISTORICAL_BPM_REGIMES[i].year = 2026})

\* round(total * (1 - depreciation / 100), 2) in cents.  The exact product
\* total * (10000 - depreciation) / 10000 is rounded to the nearest cent; at
\* an exact half cent the binary floating-point product lies just below or
\* just above the half, so either neighbour is a possible result.
round_net(total, dep) ==
    LET k   == 10000 - dep
        q   == total \div 10000
        r   == total % 10000
        fl  == q * k + (r * k) \div 10000
        rem == (r * k) % 10000
    IN  IF rem < 5000 THEN {fl}
        ELSE IF rem > 5000 THEN {fl + 1}
        ELSE {fl, fl + 1}

\* ------------------------------------------------------------------------
\* Inputs of calculate_bpm
\* ------------------------------------------------------------------------

CO2Values == (0 - NegCO2)..MaxCO2

\* Raw fuel strings: "Diesel", "petrol", "Elektro", "Hybrid", " LPG ",
\* "hydrogen" (no known term)
RawFuels ==
    { <<"D","i","e","s","e","l">>,
      <<"p","e","t","r","o","l">>,
      <<"E","l","e","k","t","r","o">>,
      <<"H","y","b","r","i","d">>,
      <<" ","L","P","G"," ">>,
      <<"h","y","d","r","o","g","e","n">> }

Date(y, m, d) == [year |-> y, month |-> m, day |-> d]

\* First-registration dates: before the catalog, around the WLTP transition
\* of July 2020, one or more per catalog year, and after the catalog.
RegistrationDates ==
    { Date(2014, 4, 1),  Date(2019, 3, 15), Date(2020, 6, 30),
      Date(2020, 7, 1),  Date(2021, 5, 20), Date(2022, 2, 10),
      Date(2023, 9, 5),  Date(2024, 1, 31), Date(2025, 8, 15),
      Date(2026, 3, 1),  Date(2026, 10, 25), Date(2027, 1, 1) }

\* Values datetime.now() returns: one in the catalog's last year, one after it
Nows == { Date(2026, 11, 1), Date(2027, 2, 10) }

PRE_WLTP_NOTE == "Uw auto dateert van voor de WLTP-overgang (juli 2020)."

\* ------------------------------------------------------------------------
\* calculate_bpm as a state machine: the inputs, the clock, the locals and
\* the returned BPMResult
\* ------------------------------------------------------------------------

VARIABLES
    pc,                       \* position in calculate_bpm
    co2_gkm, fuel_type, first_registration_date,   \* arguments
    now,                      \* what datetime.now() returns to this call
    normalized_fuel, age_months, depreciation,
    total_gross_2026, rest_bpm_2026,
    applicable_regimes,       \* catalog indices, in catalog order
    regime_pos,               \* position of the for loop in applicable_regimes
    regime, gross_bpm, diesel_surcharge, total_gross,   \* loop locals
    best_regime,              \* catalog index, 0 for None
    best_total_gross, best_gross_bpm, best_diesel_surcharge,
    rest_bpm, regime_savings,
    result,                    \* the BPMResult returned
    \* calculate_bpm invoked by several callers at once
    calls, shared_regimes, shared_table,
    \* scrape_vehicle
    url, source, listing_id, use_direct_scraping, scrape_pc, scrape_result, scrape_calls,
    \* calculate_import_margin and get_recommendation
    import_pc, steps, scrape_fn_result, german_price, market_result, bpm_result, valuation_result, margin, safe_margin, recommendation, response,
    \* the POST /bpm endpoint
    body, bpm_response,
    \* run_apify_actor
    apify_pc, timeout, clock, start_time, status, apify_outcome,
    \* search_dutch_market
    market_pc, apify_token, results, all_comparables, unique_comparables

args == << co2_gkm, fuel_type, first_registration_date, now >>

early == << normalized_fuel, age_months, depreciation >>

baseline == << total_gross_2026, rest_bpm_2026 >>

loop == << applicable_regimes, regime_pos, regime, gross_bpm,
           diesel_surcharge, total_gross >>

best == << best_regime, best_total_gross, best_gross_bpm,
           best_diesel_surcharge >>

final == << rest_bpm, regime_savings, result >>

\* calculate_bpm as one sequential call
bpm == << pc, args, early, baseline, loop, best, final >>

\* calculate_bpm invoked by several callers at once
concurrent == << calls, shared_regimes, shared_table >>

\* scrape_vehicle
scraping == << url, source, listing_id, use_direct_scraping, scrape_pc, scrape_result, scrape_calls >>

\* calculate_import_margin and get_recommendation
orchestrator == << import_pc, steps, scrape_fn_result, german_price, market_result, bpm_result, valuation_result, margin, safe_margin, recommendation, response >>

\* the POST /bpm endpoint
endpoint == << body, bpm_response >>

\* run_apify_actor
apify == << apify_pc, timeout, clock, start_time, status, apify_outcome >>

\* search_dutch_market
market == << market_pc, apify_token, results, all_comparables, unique_comparables >>

\* Everything outside the one sequential call of calculate_bpm
elsewhere == << concurrent, scraping, orchestrator, endpoint, apify, market >>

vars == << bpm, elsewhere >>

\* Everything outside concurrent
beside_concurrent == << bpm, scraping, orchestrator, endpoint, apify, market >>

\* Everything outside scraping
beside_scraping == << bpm, concurrent, orchestrator, endpoint, apify, market >>

\* Everything outside orchestrator
beside_orchestrator == << bpm, concurrent, scraping, endpoint, apify, market >>

\* Everything outside endpoint and the sequential call it makes
beside_endpoint == << concurrent, scraping, orchestrator, apify, market >>

\* Everything outside apify
beside_apify == << bpm, concurrent, scraping, orchestrator, endpoint, market >>

\* Everything outside market
beside_market == << bpm, concurrent, scraping, orchestrator, endpoint, apify >>

\* calculate_bpm invoked by several callers at once: not in use
ConcurrentIdle ==
    /\ calls = << >>
    /\ shared_regimes = << >>
    /\ shared_table = << >>

\* scrape_vehicle: not in use
ScrapingIdle ==
    /\ url = << >>
    /\ source = ""
    /\ listing_id = << >>
    /\ use_direct_scraping = TRUE
    /\ scrape_pc = "idle"
    /\ scrape_result = [success |-> FALSE, error_type |-> ""]
    /\ scrape_calls = << >>

\* calculate_import_margin and get_recommendation: not in use
OrchestratorIdle ==
    /\ import_pc = "idle"
    /\ steps = << >>
    /\ scrape_fn_result = [success |-> FALSE, error |-> ""]
    /\ german_price = 0
    /\ market_result = ""
    /\ bpm_result = [restBPM |-> 0]
    /\ valuation_result = [estimatedRetailPrice |-> 0, estimatedQuickSalePrice |-> 0]
    /\ margin = 0
    /\ safe_margin = 0
    /\ recommendation = ""
    /\ response = [success |-> FALSE, error |-> "", recommendation |-> ""]

\* the POST /bpm endpoint: not in use
EndpointIdle ==
    /\ body = << >>
    /\ bpm_response = [success |-> FALSE, error |-> ""]

\* run_apify_actor: not in use
ApifyIdle ==
    /\ apify_pc = "idle"
    /\ timeout = 0
    /\ clock = 0
    /\ start_time = 0
    /\ status = ""
    /\ apify_outcome = ""

\* search_dutch_market: not in use
MarketIdle ==
    /\ market_pc = "idle"
    /\ apify_token = FALSE
    /\ results = << >>
    /\ all_comparables = << >>
    /\ unique_comparables = << >>

\* Nothing but concurrent and the sequential call is in use
IdleBeside_concurrent ==
    /\ ScrapingIdle
    /\ OrchestratorIdle
    /\ EndpointIdle
    /\ ApifyIdle
    /\ MarketIdle

\* Nothing but scraping and the sequential call is in use
IdleBeside_scraping ==
    /\ ConcurrentIdle
    /\ OrchestratorIdle
    /\ EndpointIdle
    /\ ApifyIdle
    /\ MarketIdle

\* Nothing but orchestrator and the sequential call is in use
IdleBeside_orchestrator ==
    /\ ConcurrentIdle
    /\ ScrapingIdle
    /\ EndpointIdle
    /\ ApifyIdle
    /\ MarketIdle

\* Nothing but endpoint and the sequential call is in use
IdleBeside_endpoint ==
    /\ ConcurrentIdle
    /\ ScrapingIdle
    /\ OrchestratorIdle
    /\ ApifyIdle
    /\ MarketIdle

\* Nothing but apify and the sequential call is in use
IdleBeside_apify ==
    /\ ConcurrentIdle
    /\ ScrapingIdle
    /\ OrchestratorIdle
    /\ EndpointIdle
    /\ MarketIdle

\* Nothing but market and the sequential call is in use
IdleBeside_market ==
    /\ ConcurrentIdle
    /\ ScrapingIdle
    /\ OrchestratorIdle
    /\ EndpointIdle
    /\ ApifyIdle

\* Nothing outside the one sequential call of calculate_bpm is in use
ElsewhereIdle ==
    /\ ConcurrentIdle
    /\ ScrapingIdle
    /\ OrchestratorIdle
    /\ EndpointIdle
    /\ ApifyIdle
    /\ MarketIdle

\* BPMResult before the call has returned
NoResult ==
    [ gross_bpm |-> 0, rest_bpm |-> 0, depreciation_percentage |-> 0,
      diesel_surcharge |-> 0, vehicle_age_months |-> 0, co2_gkm |-> 0,
      fuel_type |-> "", regime_year |-> 0, regime_label |-> "",
      regime_verified |-> FALSE, bpm_2026_regime |-> 0,
      regime_savings |-> 0, pre_wltp_note |-> "" ]

Init ==
    /\ pc = "start"
    /\ co2_gkm \in CO2Values
    /\ fuel_type \in RawFuels
    /\ first_registration_date \in RegistrationDates
    /\ now \in Nows
    /\ normalized_fuel = ""
    /\ age_months = 0
    /\ depreciation = 0
    /\ total_gross_2026 = 0
    /\ rest_bpm_2026 = 0
    /\ applicable_regimes = << >>
    /\ regime_pos = 0
    /\ regime = 0
    /\ gross_bpm = 0
    /\ diesel_surcharge = 0
    /\ total_gross = 0
    /\ best_regime = 0
    /\ best_total_gross = 0
    /\ best_gross_bpm = 0
    /\ best_diesel_surcharge = 0
    /\ rest_bpm = 0
    /\ regime_savings = 0
    /\ result = NoResult
    /\ ElsewhereIdle

\* normalized fuel, vehicle age and depreciation
Begin ==
    /\ pc = "start"
    /\ normalized_fuel' = normalize_fuel_type(fuel_type)
    /\ age_months' = calculate_vehicle_age_months(first_registration_date, now)
    /\ depreciation' = get_depreciation_percentage(age_months')
    /\ pc' = "baseline"
    /\ UNCHANGED << args, baseline, loop, best, final >>
    /\ UNCHANGED elsewhere

\* BPM under the 2026 regime, for comparison
Baseline ==
    /\ pc = "baseline"
    /\ total_gross_2026' =
         calculate_bpm_for_regime(co2_gkm, normalized_fuel,
                                  HISTORICAL_BPM_REGIMES[regime_2026])[3]
    /\ rest_bpm_2026' \in round_net(total_gross_2026', depreciation)
    /\ pc' = "applicable"
    /\ UNCHANGED << args, early, loop, best, final >>
    /\ UNCHANGED elsewhere

\* the applicable regimes and the initial best
Applicable ==
    /\ pc = "applicable"
    /\ applicable_regimes' = get_applicable_regimes(first_registration_date)
    /\ regime_pos' = 1
    /\ best_regime' = 0
    /\ best_total_gross' = Inf
    /\ best_gross_bpm' = 0
    /\ best_diesel_surcharge' = 0
    /\ pc' = "loop"
    /\ UNCHANGED << args, early, baseline, regime, gross_bpm,
                    diesel_surcharge, total_gross, final >>
    /\ UNCHANGED elsewhere

\* Mutant of IsBetter: an equal total also replaces the current best.
IsBetter_or_equal(total, best_total) == total <= best_total

\* Mutant of IsBetter: only the first regime is ever taken as best.
IsBetter_first_only(total, best_total) == best_total = Inf

\* Mutant of IsBetter: the highest total is taken as best.
IsBetter_highest(total, best_total) ==
    best_total = Inf \/ total > best_total

\* total_gross < best_total_gross
IsBetter(total, best_total) == total < best_total

\* one iteration of the loop over the applicable regimes
Evaluate ==
    /\ pc = "loop"
    /\ regime_pos <= Len(applicable_regimes)
    /\ LET r == applicable_regimes[regime_pos]
           t == calculate_bpm_for_regime(co2_gkm, normalized_fuel,
                                         HISTORICAL_BPM_REGIMES[r])
       IN  /\ regime' = r
           /\ gross_bpm' = t[1]
           /\ diesel_surcharge' = t[2]
           /\ total_gross' = t[3]
           /\ IF IsBetter(t[3], best_total_gross)
              THEN /\ best_total_gross' = t[3]
                   /\ best_gross_bpm' = t[1]
                   /\ best_diesel_surcharge' = t[2]
                   /\ best_regime' = r
              ELSE UNCHANGED best
    /\ regime_pos' = regime_pos + 1
    /\ UNCHANGED << pc, args, early, baseline, applicable_regimes, final >>
    /\ UNCHANGED elsewhere

\* no regime found: the 2026 regime's figures
Fallback ==
    /\ pc = "loop"
    /\ regime_pos > Len(applicable_regimes)
    /\ best_regime = 0
    /\ best_regime' = regime_2026
    /\ best_gross_bpm' = total_gross_2026
    /\ best_diesel_surcharge' = 0
    /\ best_total_gross' = total_gross_2026
    /\ UNCHANGED << pc, args, early, baseline, loop, final >>
    /\ UNCHANGED elsewhere

\* Mutant of RestBpm: the savings are subtracted the wrong way round.
RestBpm_swapped ==
    /\ pc = "loop"
    /\ regime_pos > Len(applicable_regimes)
    /\ best_regime # 0
    /\ rest_bpm' \in round_net(best_total_gross, depreciation)
    /\ best_total_gross = total_gross_2026 => rest_bpm' = rest_bpm_2026
    /\ regime_savings' = rest_bpm' - rest_bpm_2026
    /\ pc' = "note"
    /\ UNCHANGED << args, early, baseline, loop, best, result >>
    /\ UNCHANGED elsewhere

\* rest BPM with the optimal regime, savings against the 2026 regime.  Equal
\* totals are the same floating-point value, so they round alike.
RestBpm ==
    /\ pc = "loop"
    /\ regime_pos > Len(applicable_regimes)
    /\ best_regime # 0
    /\ rest_bpm' \in round_net(best_total_gross, depreciation)
    /\ best_total_gross = total_gross_2026 => rest_bpm' = rest_bpm_2026
    /\ regime_savings' = rest_bpm_2026 - rest_bpm'
    /\ pc' = "note"
    /\ UNCHANGED << args, early, baseline, loop, best, result >>
    /\ UNCHANGED elsewhere

\* det_year < 2020 or (det_year == 2020 and month < 7)
IsPreWltp(d) == d.year < 2020 \/ (d.year = 2020 /\ d.month < 7)

\* the note for pre-WLTP cars and the returned BPMResult
Return ==
    /\ pc = "note"
    /\ result' =
         [ gross_bpm |-> best_gross_bpm,
           rest_bpm |-> rest_bpm,
           depreciation_percentage |-> depreciation,
           diesel_surcharge |-> best_diesel_surcharge,
           vehicle_age_months |-> age_months,
           co2_gkm |-> co2_gkm,
           fuel_type |-> normalized_fuel,
           regime_year |-> HISTORICAL_BPM_REGIMES[best_regime].year,
           regime_label |-> HISTORICAL_BPM_REGIMES[best_regime].label,
           regime_verified |-> HISTORICAL_BPM_REGIMES[best_regime].verified,
           bpm_2026_regime |-> rest_bpm_2026,
           regime_savings |-> regime_savings,
           pre_wltp_note |-> IF IsPreWltp(first_registration_date)
                             THEN PRE_WLTP_NOTE ELSE "" ]
    /\ pc' = "done"
    /\ UNCHANGED << args, early, baseline, loop, best, rest_bpm,
                    regime_savings >>
    /\ UNCHANGED elsewhere

Next ==
    \/ Begin
    \/ Baseline
    \/ Applicable
    \/ Evaluate
    \/ Fallback
    \/ RestBpm
    \/ Return

Spec == Init /\ [][Next]_vars

\* ------------------------------------------------------------------------
\* calculate_bpm called a second time with the same arguments
\* ------------------------------------------------------------------------

\* Clock value n2 is not before clock value n1
ClockNotBefore(n1, n2) ==
    \/ n1.year < n2.year
    \/ n1.year = n2.year /\ n1.month < n2.month
    \/ n1.year = n2.year /\ n1.month = n2.month /\ n1.day <= n2.day

\* The caller keeps the returned result and calls calculate_bpm again with
\* the same co2_gkm, fuel_type and first_registration_date; datetime.now()
\* has stood still or moved on in between.
CallAgain ==
    /\ pc = "done"
    /\ pc' = "start"
    /\ now' \in { n \in Nows : ClockNotBefore(now, n) }
    /\ normalized_fuel' = ""
    /\ age_months' = 0
    /\ depreciation' = 0
    /\ total_gross_2026' = 0
    /\ rest_bpm_2026' = 0
    /\ applicable_regimes' = << >>
    /\ regime_pos' = 0
    /\ regime' = 0
    /\ gross_bpm' = 0
    /\ diesel_surcharge' = 0
    /\ total_gross' = 0
    /\ best_regime' = 0
    /\ best_total_gross' = 0
    /\ best_gross_bpm' = 0
    /\ best_diesel_surcharge' = 0
    /\ rest_bpm' = 0
    /\ regime_savings' = 0
    /\ UNCHANGED << co2_gkm, fuel_type, first_registration_date, result >>
    /\ UNCHANGED elsewhere

NextRepeat ==
    \/ Next
    \/ CallAgain

SpecRepeat == Init /\ [][NextRepeat]_vars

\* ------------------------------------------------------------------------
\* bpm_to_dict: the returned result serialized for the JSON response
\* ------------------------------------------------------------------------

\* Mutant of bpm_to_dict: the preWltpNote key is written unconditionally.
bpm_to_dict_always_note(r) ==
    [ grossBPM |-> r.gross_bpm,
      restBPM |-> r.rest_bpm,
      depreciationPercentage |-> r.depreciation_percentage,
      dieselSurcharge |-> r.diesel_surcharge,
      vehicleAgeMonths |-> r.vehicle_age_months,
      co2_gkm |-> r.co2_gkm,
      fuelType |-> r.fuel_type,
      regimeYear |-> r.regime_year,
      regimeLabel |-> r.regime_label,
      regimeVerified |-> r.regime_verified,
      bpm2026Regime |-> r.bpm_2026_regime,
      regimeSavings |-> r.regime_savings ]
    @@ ("preWltpNote" :> r.pre_wltp_note)

\* The dictionary of a BPMResult; preWltpNote is added for a non-empty note
bpm_to_dict(r) ==
    LET d == [ grossBPM |-> r.gross_bpm,
               restBPM |-> r.rest_bpm,
               depreciationPercentage |-> r.depreciation_percentage,
               dieselSurcharge |-> r.diesel_surcharge,
               vehicleAgeMonths |-> r.vehicle_age_months,
               co2_gkm |-> r.co2_gkm,
               fuelType |-> r.fuel_type,
               regimeYear |-> r.regime_year,
               regimeLabel |-> r.regime_label,
               regimeVerified |-> r.regime_verified,
               bpm2026Regime |-> r.bpm_2026_regime,
               regimeSavings |-> r.regime_savings ]
    IN  IF r.pre_wltp_note # ""
        THEN d @@ ("preWltpNote" :> r.pre_wltp_note)
        ELSE d

\* The caller serializes the returned result: result now holds the dictionary
Serialize ==
    /\ pc = "done"
    /\ result' = bpm_to_dict(result)
    /\ pc' = "serialized"
    /\ UNCHANGED << args, early, baseline, loop, best, rest_bpm,
                    regime_savings >>
    /\ UNCHANGED elsewhere

NextSerialize ==
    \/ Next
    \/ Serialize

SpecSerialize == Init /\ [][NextSerialize]_vars

\* ------------------------------------------------------------------------
\* get_depreciation_percentage on its own: the lookup for a vehicle of any
\* age, and for the same vehicle a month later
\* ------------------------------------------------------------------------

\* The arguments and locals of calculate_bpm that a lookup leaves unset
NoCall ==
    /\ co2_gkm = 0
    /\ fuel_type = << >>
    /\ normalized_fuel = ""
    /\ total_gross_2026 = 0
    /\ rest_bpm_2026 = 0
    /\ applicable_regimes = << >>
    /\ regime_pos = 0
    /\ regime = 0
    /\ gross_bpm = 0
    /\ diesel_surcharge = 0
    /\ total_gross = 0
    /\ best_regime = 0
    /\ best_total_gross = 0
    /\ best_gross_bpm = 0
    /\ best_diesel_surcharge = 0
    /\ rest_bpm = 0
    /\ regime_savings = 0
    /\ result = NoResult

InitDepreciation ==
    /\ pc = "lookup"
    /\ age_months \in 0..MaxAgeMonths
    /\ depreciation = 0
    /\ first_registration_date = Date(0, 0, 0)
    /\ now = Date(0, 0, 0)
    /\ NoCall
    /\ ElsewhereIdle

\* get_depreciation_percentage(age_months)
LookupDepreciation ==
    /\ pc = "lookup"
    /\ depreciation' = get_depreciation_percentage(age_months)
    /\ pc' = "looked_up"
    /\ UNCHANGED << args, normalized_fuel, age_months, baseline, loop, best,
                    final >>
    /\ UNCHANGED elsewhere

\* get_depreciation_percentage(age_months + 1): the vehicle a month older
LookupMonthLater ==
    /\ pc = "looked_up"
    /\ age_months < MaxAgeMonths
    /\ age_months' = age_months + 1
    /\ depreciation' = get_depreciation_percentage(age_months')
    /\ UNCHANGED << pc, args, normalized_fuel, baseline, loop, best, final >>
    /\ UNCHANGED elsewhere

NextDepreciation ==
    \/ LookupDepreciation
    \/ LookupMonthLater

SpecDepreciation == InitDepreciation /\ [][NextDepreciation]_vars

\* ------------------------------------------------------------------------
\* calculate_vehicle_age_months on its own
\* ------------------------------------------------------------------------

\* Days of a month of a common year (2025, 2026 and 2027 have no 29 February)
DaysInMonth(m) ==
    IF m = 2 THEN 28
    ELSE IF m \in {4, 6, 9, 11} THEN 30
    ELSE 31

\* Registration dates around the clock values below: start, middle and end
\* of every month of the year before, the year of, and the year after
AgeRegistrationDates ==
    { r \in { Date(y, m, d) : y \in 2025..2027, m \in 1..12,
                              d \in {1, 14, 15, 16, 28, 30, 31} } :
        r.day <= DaysInMonth(r.month) }

\* Values of datetime.now(): start, middle and end of four months of 2026
AgeNows ==
    { Date(2026, m, d) : m \in {1, 2, 6, 12}, d \in {1, 15, 28} }

InitAge ==
    /\ pc = "age"
    /\ first_registration_date \in AgeRegistrationDates
    /\ now \in AgeNows
    /\ age_months = 0
    /\ depreciation = 0
    /\ NoCall
    /\ ElsewhereIdle

\* calculate_vehicle_age_months(first_registration_date)
ComputeAge ==
    /\ pc = "age"
    /\ age_months' =
         calculate_vehicle_age_months(first_registration_date, now)
    /\ pc' = "aged"
    /\ UNCHANGED << args, normalized_fuel, depreciation, baseline, loop, best,
                    final >>
    /\ UNCHANGED elsewhere

NextAge == ComputeAge

SpecAge == InitAge /\ [][NextAge]_vars

\* calculate_bpm next to the bare depreciation lookup: a run is either one
\* call of calculate_bpm or a series of lookups
InitWithLookup ==
    \/ Init
    \/ InitDepreciation

NextWithLookup ==
    \/ Next
    \/ NextDepreciation

SpecWithLookup == InitWithLookup /\ [][NextWithLookup]_vars

\* ------------------------------------------------------------------------
\* calculate_bpm invoked by several callers at once.  Every invocation has
\* its own locals (a record of calls); HISTORICAL_BPM_REGIMES and
\* DEPRECIATION_TABLE are the module-level objects all invocations read.
\* ------------------------------------------------------------------------

\* The one sequential call of calculate_bpm is not in use
BpmIdle ==
    /\ pc = "idle"
    /\ first_registration_date = Date(0, 0, 0)
    /\ now = Date(0, 0, 0)
    /\ age_months = 0
    /\ depreciation = 0
    /\ NoCall

\* get_depreciation_percentage reading the table object it is given
DepreciationIn(table, age) ==
    LET i    == FirstIndex({k \in 1..Len(table) :
                               DepreciationMatches(age, table[k])})
        last == table[Len(table)]
        dep  == IF i # 0
                THEN table[i].base_percentage
                     + (age - table[i].min_months) * table[i].monthly_addition
                ELSE last.base_percentage + 12 * last.monthly_addition
    IN  IF dep < 10000 THEN dep ELSE 10000

\* _get_applicable_regimes reading the catalog object it is given
ApplicableIn(regimes, date) ==
    LET start_year == IF date.year > 2020 THEN date.year ELSE 2020
    IN  SelectSeq([i \in 1..Len(regimes) |-> i],
                  LAMBDA i : regimes[i].year >= start_year)

\* The 2026 regime of the catalog object it is given, as an index
Regime2026In(regimes) ==
    FirstIndex({i \in 1..Len(regimes) : regimes[i].year = 2026})

\* Arguments and clock values of the concurrent invocations: a diesel on the
\* normal path, an exempt electric vehicle, a petrol car with two eligible
\* regimes and a diesel with no eligible regime
ConcurrentArgs ==
    { [co2_gkm |-> 100, fuel_type |-> <<"D","i","e","s","e","l">>,
       first_registration_date |-> Date(2023, 9, 5),
       now |-> Date(2026, 11, 1)],
      [co2_gkm |-> 0, fuel_type |-> <<"E","l","e","k","t","r","o">>,
       first_registration_date |-> Date(2024, 1, 31),
       now |-> Date(2026, 11, 1)],
      [co2_gkm |-> 209, fuel_type |-> <<"p","e","t","r","o","l">>,
       first_registration_date |-> Date(2025, 8, 15),
       now |-> Date(2027, 2, 10)],
      [co2_gkm |-> 100, fuel_type |-> <<"D","i","e","s","e","l">>,
       first_registration_date |-> Date(2027, 1, 1),
       now |-> Date(2027, 2, 10)] }

\* The locals of an invocation that has just been entered with arguments a
CallInit(a) ==
    [ pc |-> "start",
      co2_gkm |-> a.co2_gkm,
      fuel_type |-> a.fuel_type,
      first_registration_date |-> a.first_registration_date,
      now |-> a.now,
      normalized_fuel |-> "",
      age_months |-> 0,
      depreciation |-> 0,
      total_gross_2026 |-> 0,
      rest_bpm_2026 |-> 0,
      applicable_regimes |-> << >>,
      regime_pos |-> 0,
      best_regime |-> 0,
      best_total_gross |-> 0,
      best_gross_bpm |-> 0,
      best_diesel_surcharge |-> 0,
      rest_bpm |-> 0,
      regime_savings |-> 0,
      result |-> NoResult ]

\* The next step of an invocation with locals c, reading the catalog regimes
\* and the depreciation table: the set of locals it can have afterwards
\* (Begin, Baseline, Applicable, Evaluate, Fallback, RestBpm and Return of
\* the sequential call, on the invocation's own locals)
CallSteps(c, regimes, table) ==
    CASE c.pc = "start" ->
           LET age == calculate_vehicle_age_months(c.first_registration_date,
                                                   c.now)
           IN  { [c EXCEPT !.pc = "baseline",
                           !.normalized_fuel = normalize_fuel_type(c.fuel_type),
                           !.age_months = age,
                           !.depreciation = DepreciationIn(table, age)] }
      [] c.pc = "baseline" ->
           LET total == calculate_bpm_for_regime(c.co2_gkm, c.normalized_fuel,
                            regimes[Regime2026In(regimes)])[3]
           IN  { [c EXCEPT !.pc = "applicable",
                           !.total_gross_2026 = total,
                           !.rest_bpm_2026 = net] :
                 net \in round_net(total, c.depreciation) }
      [] c.pc = "applicable" ->
           { [c EXCEPT !.pc = "loop",
                       !.applicable_regimes =
                           ApplicableIn(regimes, c.first_registration_date),
                       !.regime_pos = 1,
                       !.best_regime = 0,
                       !.best_total_gross = Inf,
                       !.best_gross_bpm = 0,
                       !.best_diesel_surcharge = 0] }
      [] c.pc = "loop" /\ c.regime_pos <= Len(c.applicable_regimes) ->
           LET r == c.applicable_regimes[c.regime_pos]
               t == calculate_bpm_for_regime(c.co2_gkm, c.normalized_fuel,
                                             regimes[r])
           IN  { IF IsBetter(t[3], c.best_total_gross)
                 THEN [c EXCEPT !.regime_pos = c.regime_pos + 1,
                                !.best_total_gross = t[3],
                                !.best_gross_bpm = t[1],
                                !.best_diesel_surcharge = t[2],
                                !.best_regime = r]
                 ELSE [c EXCEPT !.regime_pos = c.regime_pos + 1] }
      [] c.pc = "loop" /\ c.regime_pos > Len(c.applicable_regimes)
           /\ c.best_regime = 0 ->
           { [c EXCEPT !.best_regime = Regime2026In(regimes),
                       !.best_gross_bpm = c.total_gross_2026,
                       !.best_diesel_surcharge = 0,
                       !.best_total_gross = c.total_gross_2026] }
      [] c.pc = "loop" /\ c.regime_pos > Len(c.applicable_regimes)
           /\ c.best_regime # 0 ->
           { [c EXCEPT !.pc = "note",
                       !.rest_bpm = net,
                       !.regime_savings = c.rest_bpm_2026 - net] :
             net \in { n \in round_net(c.best_total_gross, c.depreciation) :
                         c.best_total_gross = c.total_gross_2026
                           => n = c.rest_bpm_2026 } }
      [] c.pc = "note" ->
           { [c EXCEPT !.pc = "done",
                       !.result =
                         [ gross_bpm |-> c.best_gross_bpm,
                           rest_bpm |-> c.rest_bpm,
                           depreciation_percentage |-> c.depreciation,
                           diesel_surcharge |-> c.best_diesel_surcharge,
                           vehicle_age_months |-> c.age_months,
                           co2_gkm |-> c.co2_gkm,
                           fuel_type |-> c.normalized_fuel,
                           regime_year |-> regimes[c.best_regime].year,
                           regime_label |-> regimes[c.best_regime].label,
                           regime_verified |-> regimes[c.best_regime].verified,
                           bpm_2026_regime |-> c.rest_bpm_2026,
                           regime_savings |-> c.regime_savings,
                           pre_wltp_note |->
                             IF IsPreWltp(c.first_registration_date)
                             THEN PRE_WLTP_NOTE ELSE "" ]] }
      [] OTHER -> { }

InitConcurrent ==
    /\ calls \in [1..NumCalls -> {CallInit(a) : a \in ConcurrentArgs}]
    /\ shared_regimes = HISTORICAL_BPM_REGIMES
    /\ shared_table = DEPRECIATION_TABLE
    /\ BpmIdle
    /\ IdleBeside_concurrent

\* Mutant of CallStep: best_regime and the best amounts are kept in one place
\* for all invocations instead of in the locals of each.
CallStep_shared_best(i) ==
    /\ \E c \in CallSteps(calls[i], shared_regimes, shared_table) :
          calls' = [j \in DOMAIN calls |->
                      IF j = i THEN c
                      ELSE [calls[j] EXCEPT
                              !.best_regime = c.best_regime,
                              !.best_total_gross = c.best_total_gross,
                              !.best_gross_bpm = c.best_gross_bpm,
                              !.best_diesel_surcharge = c.best_diesel_surcharge]]
    /\ UNCHANGED << shared_regimes, shared_table >>
    /\ UNCHANGED beside_concurrent

\* Invocation i takes its next step; no other invocation's locals and no
\* module-level object is written
CallStep(i) ==
    /\ \E c \in CallSteps(calls[i], shared_regimes, shared_table) :
          calls' = [calls EXCEPT ![i] = c]
    /\ UNCHANGED << shared_regimes, shared_table >>
    /\ UNCHANGED beside_concurrent

NextConcurrent == \E i \in 1..NumCalls : CallStep(i)

SpecConcurrent == InitConcurrent /\ [][NextConcurrent]_vars

\* ------------------------------------------------------------------------
\* scrapers.py: detect_source, extract_listing_id and scrape_vehicle
\* ------------------------------------------------------------------------

\* Position of the first occurrence of term in s, 0 when there is none
IndexOf(s, term) ==
    FirstIndex({i \in 1..(Len(s) - Len(term) + 1) :
                    SubSeq(s, i, i + Len(term) - 1) = term})

\* s.split(term)[0]
BeforeFirst(s, term) ==
    IF IndexOf(s, term) = 0 THEN s
    ELSE SubSeq(s, 1, IndexOf(s, term) - 1)

\* The rest of s after the first occurrence of term (term occurs in s)
AfterFirst(s, term) ==
    SubSeq(s, IndexOf(s, term) + Len(term), Len(s))

\* s.rstrip("/")
RECURSIVE rstrip_slash(_)
rstrip_slash(s) ==
    IF s # << >> /\ s[Len(s)] = "/"
    THEN rstrip_slash(SubSeq(s, 1, Len(s) - 1))
    ELSE s

\* s.split("/")[-1]
RECURSIVE LastPart(_)
LastPart(s) ==
    IF IndexOf(s, <<"/">>) = 0 THEN s
    ELSE LastPart(AfterFirst(s, <<"/">>))

mobile_de_domains == << <<"m","o","b","i","l","e",".","d","e">>, <<"s","u","c","h","e","n",".","m","o","b","i","l","e",".","d","e">> >>

autoscout24_de_domains == << <<"a","u","t","o","s","c","o","u","t","2","4",".","d","e">>, <<"a","u","t","o","s","c","o","u","t","2","4",".","c","o","m","/","d","e">>, <<"w","w","w",".","a","u","t","o","s","c","o","u","t","2","4",".","d","e">> >>

autoscout24_nl_domains == << <<"a","u","t","o","s","c","o","u","t","2","4",".","n","l">>, <<"a","u","t","o","s","c","o","u","t","2","4",".","b","e">>, <<"a","u","t","o","s","c","o","u","t","2","4",".","c","o","m","/","n","l">>, <<"w","w","w",".","a","u","t","o","s","c","o","u","t","2","4",".","n","l">> >>

\* The source website of a URL
detect_source(u) ==
    LET url_lower == lower(u)
    IN  IF AnyIn(mobile_de_domains, url_lower) THEN "mobile.de"
        ELSE IF AnyIn(autoscout24_de_domains, url_lower) THEN "autoscout24"
        ELSE IF AnyIn(autoscout24_nl_domains, url_lower) THEN "autoscout24.nl"
        ELSE "unknown"

\* Python's None, where a string is expected
None == <<"None">>

\* The listing ID of a URL, None when there is none
extract_listing_id(u, src) ==
    LET clean_url == rstrip_slash(BeforeFirst(u, <<"?">>))
    IN  IF src = "mobile.de"
        THEN IF Contains(u, <<"i","d","=">>)
             THEN BeforeFirst(BeforeFirst(AfterFirst(u, <<"i","d","=">>), <<"i","d","=">>),
                              <<"&">>)
             ELSE None
        ELSE IF src = "autoscout24" THEN LastPart(clean_url)
        ELSE None

\* not listing_id
IsFalsy(id) == id = None \/ id = << >>

\* ScrapeResult before scrape_vehicle has a result
NoScrapeResult == [success |-> FALSE, error_type |-> ""]

\* ScrapeResult(success=True, data=vehicle)
Scraped == [success |-> TRUE, error_type |-> ""]

\* ScrapeResult(success=False, error_type=e)
ScrapeError(e) == [success |-> FALSE, error_type |-> e]

\* What scrape_mobile_de_direct and scrape_autoscout24_de_direct return
DirectResults ==
    {Scraped} \cup
    {ScrapeError(e) : e \in {"LISTING_OFFLINE", "SCRAPER_BLOCKED",
                             "RATE_LIMITED", "PARSE_ERROR", "LISTING_SOLD",
                             "SCRAPER_TIMEOUT", "SCRAPER_ERROR"}}

\* What scrape_mobile_de_apify and scrape_autoscout24_de_apify return
ApifyResults ==
    {Scraped} \cup
    {ScrapeError(e) : e \in {"LISTING_OFFLINE", "LISTING_SOLD",
                             "SCRAPER_TIMEOUT", "SCRAPER_ERROR"}}

\* URLs passed to scrape_vehicle
ListingUrls ==
    { \* mobile.de in Dutch, listing 77
      <<"h","t","t","p","s",":","/","/","w","w","w",".","m","o","b","i","l","e",".","d","e","/","n","l","/","v","o","e","r","t","u","i","g","e","n","/","d","e","t","a","i","l","s",".","h","t","m","l","?","i","d","=","7","7">>,
      \* mobile.de, listing 4461
      <<"h","t","t","p","s",":","/","/","s","u","c","h","e","n",".","m","o","b","i","l","e",".","d","e","/","d","e","t","a","i","l","s",".","h","t","m","l","?","i","d","=","4","4","6","1","&","x","=","1">>,
      \* mobile.de, no id parameter
      <<"h","t","t","p","s",":","/","/","w","w","w",".","m","o","b","i","l","e",".","d","e","/","f","a","h","r","z","e","u","g","e","/","d","e","t","a","i","l","s","/","4","4","6","1">>,
      \* mobile.de, empty id parameter
      <<"h","t","t","p","s",":","/","/","s","u","c","h","e","n",".","m","o","b","i","l","e",".","d","e","/","d","e","t","a","i","l","s",".","h","t","m","l","?","i","d","=">>,
      \* AutoScout24 Germany
      <<"h","t","t","p","s",":","/","/","w","w","w",".","A","u","t","o","S","c","o","u","t","2","4",".","d","e","/","a","n","g","e","b","o","t","e","/","b","m","w","-","3","2","0","d","-","4","7","9","3","6","3","a","0","/">>,
      \* AutoScout24 international, German section
      <<"h","t","t","p","s",":","/","/","w","w","w",".","a","u","t","o","s","c","o","u","t","2","4",".","c","o","m","/","d","e","/","a","n","g","e","b","o","t","e","/","a","u","d","i","-","a","4","?","c","l","=","1">>,
      \* AutoScout24 Germany only in the query string, no path
      <<"?","r","e","f","=","a","u","t","o","s","c","o","u","t","2","4",".","d","e">>,
      \* AutoScout24 Netherlands
      <<"h","t","t","p","s",":","/","/","w","w","w",".","a","u","t","o","s","c","o","u","t","2","4",".","n","l","/","a","a","n","b","o","d","/","a","u","d","i","-","a","4">>,
      \* AutoScout24 Belgium
      <<"h","t","t","p","s",":","/","/","w","w","w",".","a","u","t","o","s","c","o","u","t","2","4",".","b","e","/","n","l","/","a","a","n","b","o","d","/","a","u","d","i">>,
      \* AutoScout24 Netherlands with mobile.de in its query string, which
      \* detect_source takes for mobile.de
      <<"h","t","t","p","s",":","/","/","w","w","w",".","a","u","t","o","s","c","o","u","t","2","4",".","n","l","/","a","a","n","b","o","d","/","a","4","?","r","e","f","=","m","o","b","i","l","e",".","d","e","&","i","d","=","9">>,
      \* another site
      <<"h","t","t","p","s",":","/","/","w","w","w",".","m","a","r","k","t","p","l","a","a","t","s",".","n","l","/","v","/","a","u","t","o","/","1","2","3">> }

InitScraping ==
    /\ url \in ListingUrls
    /\ use_direct_scraping \in BOOLEAN
    /\ source = ""
    /\ listing_id = << >>
    /\ scrape_pc = "start"
    /\ scrape_result = NoScrapeResult
    /\ scrape_calls = << >>
    /\ BpmIdle
    /\ IdleBeside_scraping

\* detect_source, extract_listing_id and the INVALID_URL returns
DetectSource ==
    /\ scrape_pc = "start"
    /\ source' = detect_source(url)
    /\ IF source' \in {"autoscout24.nl", "unknown"}
       THEN /\ listing_id' = listing_id
            /\ scrape_result' = ScrapeError("INVALID_URL")
            /\ scrape_pc' = "returned"
       ELSE /\ listing_id' = extract_listing_id(url, source')
            /\ IF IsFalsy(listing_id')
               THEN /\ scrape_result' = ScrapeError("INVALID_URL")
                    /\ scrape_pc' = "returned"
               ELSE /\ scrape_result' = scrape_result
                    /\ scrape_pc' = IF use_direct_scraping THEN "direct"
                                    ELSE "apify"
    /\ UNCHANGED << url, use_direct_scraping, scrape_calls >>
    /\ UNCHANGED beside_scraping

\* Mutant of DirectScrape: every failure of the direct scrape falls back to
\* Apify, LISTING_OFFLINE too.
DirectScrape_always_fallback ==
    /\ scrape_pc = "direct"
    /\ scrape_calls' = Append(scrape_calls, "direct")
    /\ \E r \in DirectResults :
          /\ scrape_result' = r
          /\ scrape_pc' = IF r.success THEN "returned" ELSE "apify"
    /\ UNCHANGED << url, source, listing_id, use_direct_scraping >>
    /\ UNCHANGED beside_scraping

\* await scrape_..._direct(url); return on success and on LISTING_OFFLINE
DirectScrape ==
    /\ scrape_pc = "direct"
    /\ scrape_calls' = Append(scrape_calls, "direct")
    /\ \E r \in DirectResults :
          /\ scrape_result' = r
          /\ scrape_pc' = IF r.success \/ r.error_type = "LISTING_OFFLINE"
                          THEN "returned" ELSE "apify"
    /\ UNCHANGED << url, source, listing_id, use_direct_scraping >>
    /\ UNCHANGED beside_scraping

\* result = await scrape_..._apify(url, apify_token); return result
ApifyScrape ==
    /\ scrape_pc = "apify"
    /\ scrape_calls' = Append(scrape_calls, "apify")
    /\ scrape_result' \in ApifyResults
    /\ scrape_pc' = "returned"
    /\ UNCHANGED << url, source, listing_id, use_direct_scraping >>
    /\ UNCHANGED beside_scraping

NextScraping ==
    \/ DetectSource
    \/ DirectScrape
    \/ ApifyScrape

SpecScraping == InitScraping /\ [][NextScraping]_vars

\* ------------------------------------------------------------------------
\* scrapers.py: run_apify_actor.  The clock is the event loop's time in
\* whole seconds; a request takes 0..MaxRequestTime of them and completes
\* with a response or with an error.
\* ------------------------------------------------------------------------

\* The statuses of an actor run
RunningStatuses == {"READY", "RUNNING"}

FailedStatuses == {"FAILED", "ABORTED", "TIMED-OUT"}

Statuses == RunningStatuses \cup {"SUCCEEDED"} \cup FailedStatuses

InitApify ==
    /\ apify_pc = "start"
    /\ timeout \in 0..MaxTimeout
    /\ clock = 0
    /\ start_time = 0
    /\ status = ""
    /\ apify_outcome = ""
    /\ BpmIdle
    /\ IdleBeside_apify

\* client.post starts the run, raise_for_status, start_time = loop.time()
StartRun ==
    /\ apify_pc = "start"
    /\ \E d \in 0..MaxRequestTime :
         /\ clock' = clock + d
         /\ \/ /\ apify_pc' = "raised"
               /\ apify_outcome' = "HTTPError"
               /\ start_time' = start_time
            \/ /\ apify_pc' = "loop"
               /\ start_time' = clock'
               /\ apify_outcome' = apify_outcome
    /\ UNCHANGED << timeout, status >>
    /\ UNCHANGED beside_apify

LoopHead_never_times_out ==
    /\ apify_pc = "loop"
    /\ apify_pc' = "poll"
    /\ UNCHANGED << timeout, clock, start_time, status, apify_outcome >>
    /\ UNCHANGED beside_apify

\* The head of the while loop: the timeout test
LoopHead ==
    /\ apify_pc = "loop"
    /\ IF clock - start_time > timeout
       THEN /\ apify_pc' = "raised"
            /\ apify_outcome' = "TimeoutError"
       ELSE /\ apify_pc' = "poll"
            /\ apify_outcome' = apify_outcome
    /\ UNCHANGED << timeout, clock, start_time, status >>
    /\ UNCHANGED beside_apify

\* client.get of the run's status, raise_for_status, and the test of the
\* status
Poll ==
    /\ apify_pc = "poll"
    /\ \E d \in 0..MaxRequestTime :
         /\ clock' = clock + d
         /\ \/ /\ apify_pc' = "raised"
               /\ apify_outcome' = "HTTPError"
               /\ status' = status
            \/ \E st \in Statuses :
                 /\ status' = st
                 /\ IF st = "SUCCEEDED"
                    THEN /\ apify_pc' = "fetch"
                         /\ apify_outcome' = apify_outcome
                    ELSE IF st \in FailedStatuses
                    THEN /\ apify_pc' = "raised"
                         /\ apify_outcome' = "Exception"
                    ELSE /\ apify_pc' = "sleep"
                         /\ apify_outcome' = apify_outcome
    /\ UNCHANGED << timeout, start_time >>
    /\ UNCHANGED beside_apify

\* await asyncio.sleep(2): at least two seconds pass
Sleep ==
    /\ apify_pc = "sleep"
    /\ \E late \in 0..MaxRequestTime : clock' = clock + 2 + late
    /\ apify_pc' = "loop"
    /\ UNCHANGED << timeout, start_time, status, apify_outcome >>
    /\ UNCHANGED beside_apify

\* client.get of the dataset items, raise_for_status, return response.json()
Fetch ==
    /\ apify_pc = "fetch"
    /\ \E d \in 0..MaxRequestTime :
         /\ clock' = clock + d
         /\ \/ /\ apify_pc' = "raised"
               /\ apify_outcome' = "HTTPError"
            \/ /\ apify_pc' = "returned"
               /\ apify_outcome' = "items"
    /\ UNCHANGED << timeout, start_time, status >>
    /\ UNCHANGED beside_apify

NextApify ==
    \/ StartRun
    \/ LoopHead
    \/ Poll
    \/ Sleep
    \/ Fetch

SpecApify == InitApify /\ [][NextApify]_vars

\* Every request completes and the event loop resumes the coroutine after
\* every await
SpecApifyFair == SpecApify /\ WF_vars(NextApify)

\* ------------------------------------------------------------------------
\* dutch_market.py: search_dutch_market.  A platform search returns a list
\* of comparables or raises; asyncio.gather(return_exceptions = True) hands
\* back the list or the exception in the order of the tasks.
\* ------------------------------------------------------------------------

\* The source of the comparables of each task, in task order
source_names ==
    << "autoscout24", "autotrack", "gaspedaal", "occasions", "marktplaats" >>

\* The number of tasks: Marktplaats is searched only with a token
NumTasks(token) == IF token THEN 5 ELSE 4

\* comp.listing_url.lower().split('?')[0].rstrip('/')
url_normalized(listing_url) ==
    rstrip_slash(BeforeFirst(lower(listing_url), <<"?">>))

\* The deduplication loop over comps with the URLs seen so far
RECURSIVE Unique(_, _)
Unique(comps, seen_urls) ==
    IF comps = << >> THEN << >>
    ELSE LET n == url_normalized(Head(comps).listing_url)
         IN  IF n \notin seen_urls /\ n # << >>
             THEN << Head(comps) >> \o Unique(Tail(comps), seen_urls \cup {n})
             ELSE Unique(Tail(comps), seen_urls)

\* comp put into a list sorted by price, behind the entries of equal price
RECURSIVE Insert(_, _)
Insert(sorted, comp) ==
    IF sorted = << >> THEN << comp >>
    ELSE IF Head(sorted).price_eur <= comp.price_eur
    THEN << Head(sorted) >> \o Insert(Tail(sorted), comp)
    ELSE << comp >> \o sorted

\* list.sort(key = lambda x: x.price_eur): a stable sort
RECURSIVE SortByPrice(_)
SortByPrice(comps) ==
    IF comps = << >> THEN << >>
    ELSE Insert(SortByPrice(SubSeq(comps, 1, Len(comps) - 1)),
                comps[Len(comps)])

\* The lists of several results, one after the other
RECURSIVE Extend(_)
Extend(rs) ==
    IF rs = << >> THEN << >>
    ELSE (IF Head(rs).raised THEN << >> ELSE Head(rs).items)
           \o Extend(Tail(rs))

\* Listing URLs: one listing written two ways (the second in capitals, with
\* a trailing slash and a query string), another listing, no URL, and a URL
\* that is a slash only
ListingUrlsNL ==
    { <<"n","l","/","a">>, <<"N","L","/","A","/","?","p">>,
      <<"n","l","/","b">>, << >>, <<"/">> }

PricesNL == { 15000, 20000 }

\* What the platforms found, as one list in task order
Found(token) ==
    { f \in UNION { [1..k -> (1..NumTasks(token)) \X ListingUrlsNL \X PricesNL]
                      : k \in 0..MaxComparables } :
        \A i \in 1..(Len(f) - 1) : f[i][1] <= f[i + 1][1] }

\* The list of task i among what the platforms found
ItemsOf(f, i) ==
    LET IsOfTask(e) == e[1] = i
        mine == SelectSeq(f, IsOfTask)
    IN  [j \in 1..Len(mine) |->
           [listing_url |-> mine[j][2], price_eur |-> mine[j][3],
            source |-> source_names[i]]]

InitMarket ==
    /\ market_pc = "gather"
    /\ apify_token \in BOOLEAN
    /\ \E f \in Found(apify_token) :
         \E failed \in SUBSET {i \in 1..NumTasks(apify_token) :
                                 ItemsOf(f, i) = << >>} :
           results = [i \in 1..NumTasks(apify_token) |->
                        [raised |-> i \in failed, items |-> ItemsOf(f, i)]]
    /\ all_comparables = << >>
    /\ unique_comparables = << >>
    /\ BpmIdle
    /\ IdleBeside_market

\* The loop over the gathered results: the lists extend all_comparables
GatherResults ==
    /\ market_pc = "gather"
    /\ all_comparables' = Extend(results)
    /\ market_pc' = "deduplicate"
    /\ UNCHANGED << apify_token, results, unique_comparables >>
    /\ UNCHANGED beside_market

Deduplicate_keeps_all ==
    /\ market_pc = "deduplicate"
    /\ unique_comparables' = all_comparables
    /\ market_pc' = "sort"
    /\ UNCHANGED << apify_token, results, all_comparables >>
    /\ UNCHANGED beside_market

\* The deduplication by normalized URL
Deduplicate ==
    /\ market_pc = "deduplicate"
    /\ unique_comparables' = Unique(all_comparables, {})
    /\ market_pc' = "sort"
    /\ UNCHANGED << apify_token, results, all_comparables >>
    /\ UNCHANGED beside_market

\* unique_comparables.sort(...) and the return
SortAndReturn ==
    /\ market_pc = "sort"
    /\ unique_comparables' = SortByPrice(unique_comparables)
    /\ market_pc' = "returned"
    /\ UNCHANGED << apify_token, results, all_comparables >>
    /\ UNCHANGED beside_market

NextMarket ==
    \/ GatherResults
    \/ Deduplicate
    \/ SortAndReturn

SpecMarket == InitMarket /\ [][NextMarket]_vars

\* ------------------------------------------------------------------------
\* app.py: get_recommendation and calculate_import_margin
\* ------------------------------------------------------------------------

\* Margin thresholds in cents
MARGIN_THRESHOLDS == [go |-> 250000, consider |-> 100000, safe_margin |-> 50000]

\* sum(DEFAULT_IMPORT_COSTS.values()) in cents: 450 + 85 + 50 + 200 + 12.95
TOTAL_DEFAULT_IMPORT_COSTS == 45000 + 8500 + 5000 + 20000 + 1295

\* Mutant of get_recommendation: GO is given on the margin alone.
get_recommendation_ignores_safe_margin(m, s) ==
    IF m >= MARGIN_THRESHOLDS.go THEN "GO"
    ELSE IF m >= MARGIN_THRESHOLDS.consider THEN "CONSIDER"
    ELSE "NO_GO"

\* The recommendation for a margin and a safe margin
get_recommendation(m, s) ==
    IF m >= MARGIN_THRESHOLDS.go /\ s > MARGIN_THRESHOLDS.safe_margin
    THEN "GO"
    ELSE IF m >= MARGIN_THRESHOLDS.consider THEN "CONSIDER"
    ELSE "NO_GO"

\* What scrape_vehicle_fn returns: success with the vehicle data, or the
\* error of the scrape
ScrapeFnResults ==
    { [success |-> TRUE, error |-> ""] } \cup
    { [success |-> FALSE, error |-> e] :
        e \in {"INVALID_URL", "LISTING_OFFLINE", "LISTING_SOLD",
               "SCRAPER_TIMEOUT", "SCRAPER_ERROR"} }

\* vehicle_data["price_eur"] of the scraped listing, in cents
GermanPrices == { 1000000, 1250000, 2000000 }

\* restBPM of the BPM calculation, in cents
RestBpms == { 0, 47059, 150050 }

\* Retail and quick-sale price of the valuation, in cents
Valuations ==
    { [estimatedRetailPrice |-> r, estimatedQuickSalePrice |-> q] :
        r \in { 1200000, 1500000, 2500000 },
        q \in { 1100000, 1300000, 2400000 } }

NoResponse == [success |-> FALSE, error |-> "", recommendation |-> ""]

InitImport ==
    /\ import_pc = "start"
    /\ steps = << >>
    /\ scrape_fn_result = [success |-> FALSE, error |-> ""]
    /\ german_price = 0
    /\ market_result = ""
    /\ bpm_result = [restBPM |-> 0]
    /\ valuation_result =
         [estimatedRetailPrice |-> 0, estimatedQuickSalePrice |-> 0]
    /\ margin = 0
    /\ safe_margin = 0
    /\ recommendation = ""
    /\ response = NoResponse
    /\ BpmIdle
    /\ IdleBeside_orchestrator

\* Mutant of ScrapeStep: a failed scrape is not returned, the later steps run.
ScrapeStep_ignores_failure ==
    /\ import_pc = "start"
    /\ steps' = Append(steps, "scrape")
    /\ \E r \in ScrapeFnResults, p \in GermanPrices :
          /\ scrape_fn_result' = r
          /\ german_price' = p
          /\ response' = response
          /\ import_pc' = "market"
    /\ UNCHANGED << market_result, bpm_result, valuation_result, margin,
                    safe_margin, recommendation >>
    /\ UNCHANGED beside_orchestrator

\* Step 1: scrape_vehicle_fn.remote(url); a failed scrape is returned at once
ScrapeStep ==
    /\ import_pc = "start"
    /\ steps' = Append(steps, "scrape")
    /\ \E r \in ScrapeFnResults, p \in GermanPrices :
          /\ scrape_fn_result' = r
          /\ IF r.success
             THEN /\ german_price' = p
                  /\ response' = response
                  /\ import_pc' = "market"
             ELSE /\ german_price' = german_price
                  /\ response' = [success |-> FALSE, error |-> r.error,
                                  recommendation |-> ""]
                  /\ import_pc' = "returned"
    /\ UNCHANGED << market_result, bpm_result, valuation_result, margin,
                    safe_margin, recommendation >>
    /\ UNCHANGED beside_orchestrator

\* Step 2: search_dutch_market_fn.remote(vehicle_data)
MarketStep ==
    /\ import_pc = "market"
    /\ steps' = Append(steps, "market")
    /\ market_result' = "comparables"
    /\ import_pc' = "bpm"
    /\ UNCHANGED << scrape_fn_result, german_price, bpm_result,
                    valuation_result, margin, safe_margin, recommendation,
                    response >>
    /\ UNCHANGED beside_orchestrator

\* Step 3: calculate_bpm_fn.remote(co2_gkm, fuelType, firstRegistrationDate)
BpmStep ==
    /\ import_pc = "bpm"
    /\ steps' = Append(steps, "bpm")
    /\ \E b \in RestBpms : bpm_result' = [restBPM |-> b]
    /\ import_pc' = "valuation"
    /\ UNCHANGED << scrape_fn_result, german_price, market_result,
                    valuation_result, margin, safe_margin, recommendation,
                    response >>
    /\ UNCHANGED beside_orchestrator

\* Step 4: valuate_vehicle_fn.remote(vehicle_data, comparables)
ValuationStep ==
    /\ import_pc = "valuation"
    /\ steps' = Append(steps, "valuation")
    /\ valuation_result' \in Valuations
    /\ import_pc' = "margin"
    /\ UNCHANGED << scrape_fn_result, german_price, market_result,
                    bpm_result, margin, safe_margin, recommendation,
                    response >>
    /\ UNCHANGED beside_orchestrator

\* Step 5: costs, margin and recommendation, and the returned response
MarginStep ==
    /\ import_pc = "margin"
    /\ steps' = Append(steps, "margin")
    /\ LET total_cost == german_price + bpm_result.restBPM
                         + TOTAL_DEFAULT_IMPORT_COSTS
       IN  /\ margin' = valuation_result.estimatedRetailPrice - total_cost
           /\ safe_margin' =
                valuation_result.estimatedQuickSalePrice - total_cost
    /\ recommendation' = get_recommendation(margin', safe_margin')
    /\ response' = [success |-> TRUE, error |-> "",
                    recommendation |-> recommendation']
    /\ import_pc' = "returned"
    /\ UNCHANGED << scrape_fn_result, german_price, market_result,
                    bpm_result, valuation_result >>
    /\ UNCHANGED beside_orchestrator

NextImport ==
    \/ ScrapeStep
    \/ MarketStep
    \/ BpmStep
    \/ ValuationStep
    \/ MarginStep

SpecImport == InitImport /\ [][NextImport]_vars

\* get_recommendation on its own: margins and safe margins on both sides
\* of, and on, every threshold
Margins ==
    { -100000, 0, 99999, 100000, 100001, 175000, 249999, 250000, 250001,
      400000 }

SafeMargins == { -50000, 0, 49999, 50000, 50001, 300000 }

InitRecommendation ==
    /\ import_pc = "recommend"
    /\ margin \in Margins
    /\ safe_margin \in SafeMargins
    /\ steps = << >>
    /\ scrape_fn_result = [success |-> FALSE, error |-> ""]
    /\ german_price = 0
    /\ market_result = ""
    /\ bpm_result = [restBPM |-> 0]
    /\ valuation_result =
         [estimatedRetailPrice |-> 0, estimatedQuickSalePrice |-> 0]
    /\ recommendation = ""
    /\ response = NoResponse
    /\ BpmIdle
    /\ IdleBeside_orchestrator

\* recommendation = get_recommendation(margin, safe_margin)
Recommend ==
    /\ import_pc = "recommend"
    /\ recommendation' = get_recommendation(margin, safe_margin)
    /\ import_pc' = "recommended"
    /\ UNCHANGED << steps, scrape_fn_result, german_price, market_result,
                    bpm_result, valuation_result, margin, safe_margin,
                    response >>
    /\ UNCHANGED beside_orchestrator

\* get_recommendation again for a higher margin and the same safe margin
RecommendHigher ==
    /\ import_pc = "recommended"
    /\ \E m \in Margins :
         /\ m > margin
         /\ margin' = m
         /\ recommendation' = get_recommendation(m, safe_margin)
    /\ UNCHANGED << import_pc, steps, scrape_fn_result, german_price,
                    market_result, bpm_result, valuation_result, safe_margin,
                    response >>
    /\ UNCHANGED beside_orchestrator

NextRecommendation ==
    \/ Recommend
    \/ RecommendHigher

SpecRecommendation == InitRecommendation /\ [][NextRecommendation]_vars

\* ------------------------------------------------------------------------
\* app.py: the POST /bpm endpoint around calculate_bpm and bpm_to_dict
\* ------------------------------------------------------------------------

Digits == <<"0","1","2","3","4","5","6","7","8","9">>

IsDigit(c) == \E d \in 1..Len(Digits) : Digits[d] = c

DigitValue(c) == (CHOOSE d \in 1..Len(Digits) : Digits[d] = c) - 1

\* The number written by a sequence of digits
RECURSIVE Number(_)
Number(ds) ==
    IF ds = << >> THEN 0
    ELSE 10 * Number(SubSeq(ds, 1, Len(ds) - 1)) + DigitValue(ds[Len(ds)])

\* The string is a calendar date written YYYY-MM-DD
IsIsoDate(str) ==
    /\ Len(str) = 10
    /\ str[5] = "-"
    /\ str[8] = "-"
    /\ \A i \in {1, 2, 3, 4, 6, 7, 9, 10} : IsDigit(str[i])
    /\ Number(SubSeq(str, 1, 4)) >= 1
    /\ Number(SubSeq(str, 6, 7)) \in 1..12
    /\ Number(SubSeq(str, 9, 10)) >= 1
    /\ Number(SubSeq(str, 9, 10)) <= DaysInMonth(Number(SubSeq(str, 6, 7)))

\* datetime.fromisoformat of a date written YYYY-MM-DD
fromisoformat(str) ==
    Date(Number(SubSeq(str, 1, 4)), Number(SubSeq(str, 6, 7)),
         Number(SubSeq(str, 9, 10)))

\* dict.get(key, default)
get(d, key, default) == IF key \in DOMAIN d THEN d[key] ELSE default

\* Request bodies: every key is present or absent.  The dates are written
\* YYYY-MM-DD in a common year, are empty, or are no ISO date at all.
FullBodies ==
    [ co2_gkm : {0, 100, 209},
      fuel_type : {<<"D","i","e","s","e","l">>, <<"E","l","e","k","t","r","o">>},
      first_registration_date : {<< >>, <<"2","0","1","4","-","0","4","-","0","1">>, <<"2","0","2","2","-","0","2","-","1","0">>, <<"2","0","2","6","-","0","3","-","0","1">>,
                                 <<"2","0","2","7","-","0","1","-","0","1">>, <<"0","1","-","0","4","-","2","0","1","4">>} ]

Bodies ==
    { [k \in K |-> b[k]] :
        b \in FullBodies,
        K \in SUBSET {"co2_gkm", "fuel_type", "first_registration_date"} }

NoBpmResponse == [success |-> FALSE, error |-> ""]

InitEndpoint ==
    /\ pc = "endpoint"
    /\ body \in Bodies
    /\ bpm_response = NoBpmResponse
    /\ co2_gkm = 0
    /\ first_registration_date = Date(0, 0, 0)
    /\ now \in Nows
    /\ age_months = 0
    /\ depreciation = 0
    /\ NoCall
    /\ IdleBeside_endpoint

\* not body.get("co2_gkm"): an absent key gives None, and None and 0 are
\* both falsy
IsFalsyCo2(d) == "co2_gkm" \notin DOMAIN d \/ d["co2_gkm"] = 0

\* body.get(...), the validation, fromisoformat and the call of calculate_bpm
Validate ==
    /\ pc = "endpoint"
    /\ LET co2          == get(body, "co2_gkm", 0)
           fuel         == get(body, "fuel_type", <<"p","e","t","r","o","l">>)
           reg_date_str == get(body, "first_registration_date", None)
       IN  IF IsFalsyCo2(body) \/ IsFalsy(reg_date_str)
           THEN /\ bpm_response' =
                     [success |-> FALSE, error |-> "VALIDATION_ERROR"]
                /\ pc' = "responded"
                /\ UNCHANGED << co2_gkm, fuel_type, first_registration_date >>
           ELSE IF ~IsIsoDate(reg_date_str)
           THEN /\ bpm_response' =
                     [success |-> FALSE, error |-> "CALCULATION_ERROR"]
                /\ pc' = "responded"
                /\ UNCHANGED << co2_gkm, fuel_type, first_registration_date >>
           ELSE /\ co2_gkm' = co2
                /\ fuel_type' = fuel
                /\ first_registration_date' = fromisoformat(reg_date_str)
                /\ bpm_response' = bpm_response
                /\ pc' = "start"
    /\ UNCHANGED << now, early, baseline, loop, best, final, body >>
    /\ UNCHANGED beside_endpoint

\* return {"success": True, "data": bpm_to_dict(result)}
Respond ==
    /\ pc = "done"
    /\ bpm_response' =
         [success |-> TRUE, error |-> "", data |-> bpm_to_dict(result)]
    /\ pc' = "responded"
    /\ UNCHANGED << args, early, baseline, loop, best, final, body >>
    /\ UNCHANGED beside_endpoint

NextEndpoint ==
    \/ Validate
    \/ Next
    \/ Respond

SpecEndpoint == InitEndpoint /\ [][NextEndpoint]_vars

\* ------------------------------------------------------------------------
\* Properties
\* ------------------------------------------------------------------------

Catalog == 1..Len(HISTORICAL_BPM_REGIMES)

YearOf(i) == HISTORICAL_BPM_REGIMES[i].year

RegYear == first_registration_date.year

\* The regimes the importer may choose from: year >= max(Y, 2020)
Eligible(Y) == {i \in Catalog : YearOf(i) >= Y /\ YearOf(i) >= 2020}

\* Total gross of catalog regime i for the current vehicle
TotalGrossOf(i) ==
    calculate_bpm_for_regime(co2_gkm, normalized_fuel,
                             HISTORICAL_BPM_REGIMES[i])[3]

\* The regimes the loop has been given
Considered == {applicable_regimes[k] : k \in 1..Len(applicable_regimes)}

\* C1: for CO2 >= 0 and a registration year <= 2026, every eligible regime
\* has been evaluated and the regime reported as selected is an eligible one
\* whose total gross is at most that of every other eligible regime.
C1_LowestEligibleSelected ==
    (pc = "done" /\ co2_gkm >= 0 /\ RegYear <= 2026) =>
        /\ Considered = Eligible(RegYear)
        /\ regime_pos = Len(applicable_regimes) + 1
        /\ best_regime \in Eligible(RegYear)
        /\ result.regime_year = YearOf(best_regime)
        /\ result.gross_bpm + result.diesel_surcharge = TotalGrossOf(best_regime)
        /\ \A j \in Eligible(RegYear) :
               result.gross_bpm + result.diesel_surcharge <= TotalGrossOf(j)

\* C1 witness: registration year 2021, CO2 = 120, petrol: the six regimes
\* 2021..2026 were evaluated and a result was returned.
C1_Witness ==
    /\ pc = "done"
    /\ RegYear = 2021 /\ co2_gkm = 120 /\ normalized_fuel = "petrol"
    /\ Considered = {i \in Catalog : YearOf(i) \in 2021..2026}
    /\ Cardinality(Considered) = 6
    /\ result.regime_year = 2021

\* The set of regimes considered is exactly the catalog regimes with
\* year >= max(Y, 2020)
ConsideredIsEligible ==
    pc \in {"loop", "note", "done"} => Considered = Eligible(RegYear)

\* C2 as stated: the considered set is exact and, for every vehicle
\* (CO2 >= 0), the reported regime_year lies in [max(Y, 2020), 2026], never
\* older than the registration year.
C2_Original ==
    /\ ConsideredIsEligible
    /\ (pc = "done" /\ co2_gkm >= 0) =>
         /\ result.regime_year >= RegYear
         /\ result.regime_year >= 2020
         /\ result.regime_year <= 2026

\* C2 amended: the considered set is exact for every Y; for Y <= 2026 the
\* reported regime_year lies in [max(Y, 2020), 2026]; for Y > 2026 no
\* regime is considered and the 2026 regime is reported.
C2_Amended ==
    /\ ConsideredIsEligible
    /\ (pc = "done" /\ RegYear <= 2026) =>
         /\ result.regime_year >= RegYear
         /\ result.regime_year >= 2020
         /\ result.regime_year <= 2026
    /\ (pc = "done" /\ RegYear > 2026) =>
         /\ Considered = {}
         /\ result.regime_year = 2026

\* C2 witness: a vehicle registered in 2023 was given exactly the regimes
\* 2023..2026 and a result was returned.
C2_Witness ==
    /\ pc = "done"
    /\ RegYear = 2023
    /\ Considered = {i \in Catalog : YearOf(i) >= 2023}
    /\ result.regime_year \in 2023..2026

\* The regime the loop evaluated last, once it has evaluated one
Evaluated == pc \in {"loop", "note", "done"} /\ regime # 0

\* The electric-vehicle override applies to the regime evaluated last
Exempted ==
    normalized_fuel = "electric" /\ HISTORICAL_BPM_REGIMES[regime].ev_exempt

\* net is total * (1 - dep / 100) rounded to the nearest cent:
\* |10000 * net - total * (10000 - dep)| <= 5000, split to stay in range
IsRoundedNet(net, total, dep) ==
    LET k == 10000 - dep
        q == total \div 10000
        r == total % 10000
        d == 10000 * (net - q * k) - r * k
    IN  -5000 <= d /\ d <= 5000

\* Gross of the catalog's 2026 regime: 2026 bracket tax + 2026 diesel surcharge
Gross2026 ==
    LET r == HISTORICAL_BPM_REGIMES[CHOOSE i \in Catalog : YearOf(i) = 2026]
    IN  calculate_gross_bpm_for_brackets(co2_gkm, r.co2_brackets)
        + calculate_diesel_surcharge_for_regime(co2_gkm, normalized_fuel,
              r.diesel_threshold, r.diesel_subtract, r.diesel_rate)

\* C3: exemption flags are true for 2020..2024 and false for 2025..2026; an
\* exempt regime evaluated for an electric vehicle yields gross 0, surcharge
\* 0 and total 0 whatever the CO2 value; an electric vehicle with CO2 >= 0
\* registered in 2024 or earlier gets gross_bpm = 0 and rest_bpm = 0, one
\* registered in 2025 or 2026 is taxed from the selected regime's brackets.
C3_EvExemption ==
    /\ \A i \in Catalog :
         HISTORICAL_BPM_REGIMES[i].ev_exempt <=> YearOf(i) \in 2020..2024
    /\ (Evaluated /\ Exempted) =>
         gross_bpm = 0 /\ diesel_surcharge = 0 /\ total_gross = 0
    /\ (pc = "done" /\ normalized_fuel = "electric" /\ co2_gkm >= 0
          /\ RegYear <= 2024) =>
         result.gross_bpm = 0 /\ result.rest_bpm = 0
    /\ (pc = "done" /\ normalized_fuel = "electric" /\ co2_gkm >= 0
          /\ RegYear \in {2025, 2026}) =>
         /\ result.regime_year \in {2025, 2026}
         /\ result.gross_bpm =
              calculate_gross_bpm_for_brackets(co2_gkm,
                  HISTORICAL_BPM_REGIMES[best_regime].co2_brackets)
         /\ result.gross_bpm > 0
         /\ result.diesel_surcharge = 0

\* C3 witness: an electric vehicle with CO2 = 0 registered in 2022 got gross
\* 0 under the 2022 regime.
C3_Witness ==
    /\ pc = "done"
    /\ normalized_fuel = "electric" /\ co2_gkm = 0 /\ RegYear = 2022
    /\ result.regime_year = 2022
    /\ result.gross_bpm = 0 /\ result.rest_bpm = 0

\* C4: in every result, whichever regime is selected, bpm_2026_regime is the
\* 2026 regime's gross (bracket tax + diesel surcharge) times
\* (1 - depreciation / 100), rounded to cents.
C4_Baseline2026 ==
    pc = "done" =>
        /\ result.depreciation_percentage = get_depreciation_percentage(age_months)
        /\ IsRoundedNet(result.bpm_2026_regime, Gross2026,
                        result.depreciation_percentage)

\* C4 witness: another regime than 2026 was selected and the baseline is
\* there, above the selected regime's net tax.
C4_Witness ==
    /\ pc = "done"
    /\ result.regime_year # 2026
    /\ result.bpm_2026_regime > result.rest_bpm
    /\ result.rest_bpm > 0

\* C5: in every result, regime_savings = bpm_2026_regime - rest_bpm, where
\* both are net amounts under the same depreciation percentage: of the 2026
\* regime's gross and of the selected regime's gross.
C5_Savings ==
    pc = "done" =>
        /\ result.regime_savings = result.bpm_2026_regime - result.rest_bpm
        /\ IsRoundedNet(result.bpm_2026_regime, Gross2026,
                        result.depreciation_percentage)
        /\ IsRoundedNet(result.rest_bpm, TotalGrossOf(best_regime),
                        result.depreciation_percentage)

\* C5 witness: a result with positive savings
C5_Witness ==
    /\ pc = "done"
    /\ result.regime_savings > 0
    /\ result.regime_year < 2026

\* The selected regime is the first, in catalog order, of the eligible
\* regimes with the minimal total gross
FirstMinimumSelected ==
    (pc = "done" /\ Eligible(RegYear) # {}) =>
        /\ best_regime \in Eligible(RegYear)
        /\ \A j \in Eligible(RegYear) :
              /\ TotalGrossOf(best_regime) <= TotalGrossOf(j)
              /\ TotalGrossOf(j) = TotalGrossOf(best_regime) =>
                    /\ best_regime <= j
                    /\ result.regime_year <= YearOf(j)

\* The catalog is strictly ascending by year and covers 2020..2026
CatalogAscending ==
    /\ \A i, j \in Catalog : i < j => YearOf(i) < YearOf(j)
    /\ {YearOf(i) : i \in Catalog} = 2020..2026

\* C6: among eligible regimes with the same minimal total gross the first in
\* catalog order, the lowest year, is selected; the loop replaces the current
\* best only by a regime whose total gross is strictly lower.
C6_FirstMinimumWins ==
    /\ [](FirstMinimumSelected /\ CatalogAscending)
    /\ [][(pc = "loop" /\ best_regime # 0 /\ best_regime' # best_regime)
             => total_gross' < best_total_gross]_vars

\* C6 witness: a petrol vehicle for which two eligible regimes tie at the
\* minimum, and the earlier one was selected.
C6_Witness ==
    /\ pc = "done"
    /\ normalized_fuel = "petrol"
    /\ \E j \in Eligible(RegYear) :
          /\ j > best_regime
          /\ TotalGrossOf(j) = TotalGrossOf(best_regime)

\* C7: the surcharge of the regime evaluated is 0 for a fuel other than
\* diesel, 0 for diesel with CO2 <= threshold, and (CO2 - subtract) * rate
\* otherwise; under the 2026 rule (threshold 70, subtract 69) it is 0 at
\* CO2 = 70 and positive at CO2 = 71; threshold and subtract differ exactly
\* in the regimes 2024..2026.
C7_DieselSurcharge ==
    /\ \A i \in Catalog :
         (HISTORICAL_BPM_REGIMES[i].diesel_threshold
            # HISTORICAL_BPM_REGIMES[i].diesel_subtract)
         <=> YearOf(i) \in 2024..2026
    /\ Evaluated =>
         LET r == HISTORICAL_BPM_REGIMES[regime]
         IN  /\ normalized_fuel # "diesel" => diesel_surcharge = 0
             /\ (normalized_fuel = "diesel" /\ co2_gkm <= r.diesel_threshold)
                   => diesel_surcharge = 0
             /\ (normalized_fuel = "diesel" /\ co2_gkm > r.diesel_threshold)
                   => diesel_surcharge
                        = (co2_gkm - r.diesel_subtract) * r.diesel_rate
             /\ (normalized_fuel = "diesel" /\ r.year = 2026) =>
                   /\ r.diesel_threshold = 70 /\ r.diesel_subtract = 69
                   /\ co2_gkm = 70 => diesel_surcharge = 0
                   /\ co2_gkm = 71 => diesel_surcharge > 0
    /\ pc # "start" =>
         /\ calculate_diesel_surcharge(70, "diesel") = 0
         /\ calculate_diesel_surcharge(71, "diesel") > 0
         /\ normalized_fuel # "diesel" =>
               calculate_diesel_surcharge(co2_gkm, normalized_fuel) = 0

\* C7 witness: a diesel with CO2 = 71 evaluated under the 2026 regime pays
\* (71 - 69) * 114.83.
C7_Witness ==
    /\ Evaluated
    /\ normalized_fuel = "diesel" /\ co2_gkm = 71 /\ YearOf(regime) = 2026
    /\ diesel_surcharge = 2 * 11483

\* C8: for CO2 >= 0 the bracket tax of the regime evaluated is
\* (CO2 - threshold) * rate + base of the one bracket with
\* min <= CO2 <= max; under the 2026 table CO2 = 209 gives 46614.
C8_BracketEvaluator ==
    /\ (Evaluated /\ co2_gkm >= 0 /\ ~Exempted) =>
         LET bs == HISTORICAL_BPM_REGIMES[regime].co2_brackets
             M  == {i \in 1..Len(bs) :
                       bs[i].min <= co2_gkm /\ co2_gkm <= bs[i].max}
         IN  /\ Cardinality(M) = 1
             /\ \A i \in M :
                   gross_bpm = ((co2_gkm - bs[i].threshold) * bs[i].rate
                                + bs[i].base) * 100
             /\ (YearOf(regime) = 2026 /\ co2_gkm = 209) =>
                   gross_bpm = 46614 * 100
    /\ co2_gkm = 209 => calculate_gross_bpm(co2_gkm) = 46614 * 100

\* C8 witness: CO2 = 209 evaluated under the 2026 regime
C8_Witness ==
    /\ Evaluated
    /\ co2_gkm = 209 /\ YearOf(regime) = 2026 /\ ~Exempted
    /\ gross_bpm = 4661400

\* C9: in each of the seven regimes the brackets start at 0, each next min
\* is the previous max + 1 and the last bracket is open-ended; for CO2 >= 0
\* exactly one bracket matches, so the evaluator's search finds a bracket
\* and the last-bracket fallback is not taken.
C9_BracketsContiguous ==
    /\ Cardinality(Catalog) = 7
    /\ \A c \in Catalog :
         LET bs == HISTORICAL_BPM_REGIMES[c].co2_brackets
         IN  /\ bs[1].min = 0
             /\ \A i \in 1..(Len(bs) - 1) :
                   bs[i].max # Inf /\ bs[i + 1].min = bs[i].max + 1
             /\ \A i \in 1..Len(bs) : bs[i].min <= bs[i].max
             /\ bs[Len(bs)].max = Inf
             /\ co2_gkm >= 0 =>
                   LET M == {i \in 1..Len(bs) : BracketMatches(co2_gkm, bs[i])}
                   IN  Cardinality(M) = 1 /\ FirstIndex(M) # 0

\* C9 witness: CO2 = 90, the upper end of the first 2020 bracket, evaluated
\* under the 2020 regime by that bracket's formula.
C9_Witness ==
    /\ Evaluated
    /\ co2_gkm = 90 /\ YearOf(regime) = 2020 /\ ~Exempted
    /\ gross_bpm = (90 * 1 + 366) * 100

\* C10: in every regime, at the upper end of a bracket the tax equals the
\* next bracket's base, and the step to the next bracket's min is at most
\* the next bracket's rate for one gram.
C10_ContinuousAtBoundaries ==
    \A c \in Catalog :
        LET bs == HISTORICAL_BPM_REGIMES[c].co2_brackets
        IN  \A i \in 1..(Len(bs) - 1) :
               co2_gkm = bs[i].max =>
                  LET lo == calculate_gross_bpm_for_brackets(co2_gkm, bs)
                      hi == calculate_gross_bpm_for_brackets(co2_gkm + 1, bs)
                  IN  /\ bs[i + 1].base * 100 = lo
                      /\ 0 <= hi - lo
                      /\ hi - lo <= bs[i + 1].rate * 100

\* C10 witness: CO2 = 116, the upper end of the second 2020 bracket, was
\* evaluated under the 2020 regime to the third bracket's base.
C10_Witness ==
    /\ Evaluated
    /\ co2_gkm = 116 /\ YearOf(regime) = 2020 /\ ~Exempted
    /\ gross_bpm = 1938 * 100

\* C11: for every age from 0 to 1200 months the depreciation percentage
\* lies in [0, 100], and it does not decrease when the age grows by a month.
C11_DepreciationMonotone ==
    /\ [](pc = "looked_up" =>
            /\ age_months \in 0..MaxAgeMonths
            /\ 0 <= depreciation /\ depreciation <= 10000)
    /\ [][(pc = "looked_up" /\ age_months' = age_months + 1)
             => depreciation' >= depreciation]_vars

\* C11 witness: the lookup at 1200 months, reached month by month, gives the
\* capped 100%.
C11_Witness ==
    /\ pc = "looked_up"
    /\ age_months = 1200
    /\ depreciation = 10000

\* The forfaitaire table from 114 months on: 81% + 0.19% per month, capped
TableFrom114(age) ==
    LET dep == 8100 + (age - 114) * 19
    IN  IF dep < 10000 THEN dep ELSE 10000

\* The example vehicle: CO2 = 209, petrol, first registered 2014-04-01
IsExampleVehicle ==
    /\ co2_gkm = 209
    /\ fuel_type = <<"p","e","t","r","o","l">>
    /\ first_registration_date = Date(2014, 4, 1)

\* C12 as stated: from 120 months on the depreciation is 92%, and the example
\* vehicle's net tax under the 2026 regime is 46614 * 0.08 = 3729.12.
C12_Original ==
    /\ (pc = "looked_up" /\ age_months >= 120) => depreciation = 9200
    /\ pc = "done" =>
         /\ age_months >= 120 => result.depreciation_percentage = 9200
         /\ IsExampleVehicle => /\ total_gross_2026 = 4661400
                                /\ result.bpm_2026_regime = 372912

\* C12 amended: from 114 months on the depreciation is
\* min(100, 81 + (age - 114) * 0.19), so 82.14% at 120 months and 100% from
\* 214 months; the example vehicle has a 2026 gross of 46614 and a net 2026
\* tax of 46614 * (1 - depreciation / 100) rounded to cents: 5579.70 at 151
\* months (88.03%), 5314.00 at 154 months (88.60%).
C12_Amended ==
    /\ (pc = "looked_up" /\ age_months >= 114) =>
         /\ depreciation = TableFrom114(age_months)
         /\ age_months = 120 => depreciation = 8214
         /\ age_months >= 214 => depreciation = 10000
    /\ pc = "done" =>
         /\ age_months >= 114 =>
              result.depreciation_percentage = TableFrom114(age_months)
         /\ IsExampleVehicle =>
              /\ total_gross_2026 = 4661400
              /\ IsRoundedNet(result.bpm_2026_regime, total_gross_2026,
                              result.depreciation_percentage)
              /\ age_months = 151 => /\ result.depreciation_percentage = 8803
                                     /\ result.bpm_2026_regime = 557970
              /\ age_months = 154 => /\ result.depreciation_percentage = 8860
                                     /\ result.bpm_2026_regime = 531400

\* C12 witness: the example vehicle, 151 months old, has been computed.
C12_Witness ==
    /\ pc = "done"
    /\ IsExampleVehicle
    /\ result.vehicle_age_months = 151
    /\ result.depreciation_percentage = 8803
    /\ result.bpm_2026_regime = 557970

\* Months since year 0 of a date's month
MonthIndex(d) == d.year * 12 + d.month

\* (month t1, day d1) is not later than (month t2, day d2)
NotLater(t1, d1, t2, d2) == t1 < t2 \/ (t1 = t2 /\ d1 <= d2)

\* C13: the age is year difference * 12 + month difference, less one when
\* now's day of the month is before the registration's, and 0 instead of a
\* negative number; so it is the number of whole months elapsed: the
\* registration day plus age months is not after now, plus one more month is
\* after now, and a registration later than now has age 0.
C13_WholeMonths ==
    pc = "aged" =>
      LET reg      == first_registration_date
          diff     == (now.year - reg.year) * 12 + (now.month - reg.month)
          adjusted == IF now.day < reg.day THEN diff - 1 ELSE diff
          later    == ~NotLater(MonthIndex(reg), reg.day,
                                MonthIndex(now), now.day)
      IN  /\ age_months = (IF adjusted < 0 THEN 0 ELSE adjusted)
          /\ age_months >= 0
          /\ later => age_months = 0
          /\ ~later =>
               /\ NotLater(MonthIndex(reg) + age_months, reg.day,
                           MonthIndex(now), now.day)
               /\ ~NotLater(MonthIndex(reg) + age_months + 1, reg.day,
                            MonthIndex(now), now.day)

\* C13 witness: registered on 2025-01-31, now 2026-02-28: 13 months by the
\* calendar, 12 whole months elapsed.
C13_Witness ==
    /\ pc = "aged"
    /\ first_registration_date = Date(2025, 1, 31)
    /\ now = Date(2026, 2, 28)
    /\ age_months = 12

\* a and b differ by at most k cents
Within(a, b, k) == a - b <= k /\ b - a <= k

\* C14 as stated: a second call with the same co2_gkm, fuel_type and
\* first_registration_date returns the result of the first call, whatever the
\* clock did in between.  Here the second call is about to return and result
\* still holds what the first call returned; the amounts that went through
\* round() are compared up to the cent a rounding tie can move, and only
\* calls with a CO2 value of 0 or more are looked at.
C14_Original ==
    (pc = "note" /\ result # NoResult /\ co2_gkm >= 0) =>
      /\ result.vehicle_age_months = age_months
      /\ result.depreciation_percentage = depreciation
      /\ result.gross_bpm = best_gross_bpm
      /\ result.diesel_surcharge = best_diesel_surcharge
      /\ result.regime_year = HISTORICAL_BPM_REGIMES[best_regime].year
      /\ Within(result.rest_bpm, rest_bpm, 1)
      /\ Within(result.bpm_2026_regime, rest_bpm_2026, 1)
      /\ Within(result.regime_savings, regime_savings, 2)

\* The fuel string matches one of the terms normalize_fuel_type knows
IsRecognizedFuel(fuel) ==
    LET fuel_lower == strip(lower(fuel))
    IN  \/ AnyIn(hybrid_terms, fuel_lower)
        \/ AnyIn(hybrid_combos, fuel_lower)
        \/ AnyIn(electric_terms, fuel_lower)
        \/ AnyIn(diesel_terms, fuel_lower)
        \/ AnyIn(petrol_terms, fuel_lower)
        \/ AnyIn(lpg_terms, fuel_lower)

\* The first-registration date is later than now
IsFutureRegistration == ~ClockNotBefore(first_registration_date, now)

\* C15 as stated: for a negative CO2 value calculate_bpm fails with an
\* invalid-input error instead of returning a tax amount, so no result is
\* ever returned for co2_gkm < 0 (here with the other two arguments valid).
C15_Original ==
    (co2_gkm < 0 /\ IsRecognizedFuel(fuel_type) /\ ~IsFutureRegistration)
      => result = NoResult

\* C16 as stated: for a fuel type that is none of petrol, diesel, electric,
\* hybrid, lpg calculate_bpm fails with an invalid-input error, so no result
\* is ever returned for an unrecognized fuel string (here with the other two
\* arguments valid).
C16_Original ==
    (~IsRecognizedFuel(fuel_type) /\ co2_gkm >= 0 /\ ~IsFutureRegistration)
      => result = NoResult

\* C17 as stated: for a first-registration date later than now calculate_bpm
\* fails with an invalid-input error, so no result is ever returned for it
\* (here with the other two arguments valid).
C17_Original ==
    (IsFutureRegistration /\ co2_gkm >= 0 /\ IsRecognizedFuel(fuel_type))
      => result = NoResult

\* C18 as stated: when no catalog regime is eligible (registration year after
\* 2026, here with valid arguments) calculate_bpm returns a result with the
\* 2026 regime's own figures: regime_year 2026, gross_bpm the 2026 bracket
\* tax, diesel_surcharge the 2026 diesel surcharge, rest_bpm equal to
\* bpm_2026_regime and regime_savings 0.
C18_Original ==
    (pc = "done" /\ first_registration_date.year > 2026
       /\ co2_gkm >= 0 /\ ~IsFutureRegistration) =>
      LET r == HISTORICAL_BPM_REGIMES[regime_2026]
      IN  /\ result.regime_year = 2026
          /\ result.gross_bpm =
               calculate_gross_bpm_for_brackets(co2_gkm, r.co2_brackets)
          /\ result.diesel_surcharge =
               calculate_diesel_surcharge_for_regime(co2_gkm,
                   normalized_fuel, r.diesel_threshold, r.diesel_subtract,
                   r.diesel_rate)
          /\ result.rest_bpm = result.bpm_2026_regime
          /\ result.regime_savings = 0

\* C19: for a vehicle first registered in 2026, with any CO2 value of 0 or
\* more and any fuel string, the regimes the optimizer walks through are the
\* 2026 regime alone, the eligible set is {2026}, and the returned result has
\* regime_year 2026 and regime_savings 0.
C19_Registered2026 ==
    (RegYear = 2026 /\ co2_gkm >= 0) =>
      /\ {YearOf(i) : i \in Eligible(RegYear)} = {2026}
      /\ pc \in {"loop", "note", "done"} =>
           applicable_regimes = << regime_2026 >>
      /\ pc \in {"note", "done"} => /\ best_regime = regime_2026
                                    /\ regime_savings = 0
      /\ pc = "done" => /\ result.regime_year = 2026
                        /\ result.regime_savings = 0

\* C19 witness: a diesel with a positive tax, first registered in 2026, has
\* been computed under the 2026 regime with no savings.
C19_Witness ==
    /\ pc = "done"
    /\ RegYear = 2026
    /\ normalized_fuel = "diesel"
    /\ co2_gkm > 70
    /\ result.regime_year = 2026
    /\ result.regime_savings = 0
    /\ result.diesel_surcharge > 0

\* The first-registration date is before July 2020
BeforeJuly2020 ==
    \/ first_registration_date.year < 2020
    \/ first_registration_date.year = 2020 /\ first_registration_date.month < 7

\* The keys bpm_to_dict always writes
DictKeys ==
    { "grossBPM", "restBPM", "depreciationPercentage", "dieselSurcharge",
      "vehicleAgeMonths", "co2_gkm", "fuelType", "regimeYear", "regimeLabel",
      "regimeVerified", "bpm2026Regime", "regimeSavings" }

\* C20: the returned result carries the pre-WLTP note exactly when the
\* first-registration date is before July 2020; deciding on the note leaves
\* every amount as it was computed before; and the serialized result has the
\* preWltpNote key exactly when the note is non-empty, next to the twelve keys
\* that are always there, with the amounts unchanged.
C20_PreWltpNote ==
    /\ [](pc = "done" =>
            /\ result.pre_wltp_note # "" <=> BeforeJuly2020
            /\ result.pre_wltp_note \in {"", PRE_WLTP_NOTE}
            /\ result.gross_bpm = best_gross_bpm
            /\ result.diesel_surcharge = best_diesel_surcharge
            /\ result.rest_bpm = rest_bpm
            /\ result.bpm_2026_regime = rest_bpm_2026
            /\ result.regime_savings = regime_savings
            /\ result.depreciation_percentage = depreciation)
    /\ [][(pc = "note" /\ pc' = "done") =>
            UNCHANGED << best_gross_bpm, best_diesel_surcharge, rest_bpm,
                         rest_bpm_2026, regime_savings, depreciation >>]_vars
    /\ [][(pc = "done" /\ pc' = "serialized") =>
            /\ "preWltpNote" \in DOMAIN result' <=> result.pre_wltp_note # ""
            /\ DOMAIN result' \ {"preWltpNote"} = DictKeys
            /\ "preWltpNote" \in DOMAIN result' =>
                 result'["preWltpNote"] = result.pre_wltp_note
            /\ result'["grossBPM"] = result.gross_bpm
            /\ result'["restBPM"] = result.rest_bpm
            /\ result'["dieselSurcharge"] = result.diesel_surcharge
            /\ result'["bpm2026Regime"] = result.bpm_2026_regime
            /\ result'["regimeSavings"] = result.regime_savings]_vars
    /\ [](pc = "serialized" =>
            ("preWltpNote" \in DOMAIN result <=> BeforeJuly2020))

\* C20 witness: a vehicle first registered in June 2020 has been computed and
\* serialized, and the dictionary has the preWltpNote key.
C20_Witness ==
    /\ pc = "serialized"
    /\ first_registration_date = Date(2020, 6, 30)
    /\ "preWltpNote" \in DOMAIN result
    /\ result["preWltpNote"] = PRE_WLTP_NOTE

\* The invocations that have returned, out of a set of invocations
Returned(S) == {c \in S : c.pc = "done"}

\* An invocation run alone, up to its return: the locals it can end with
RECURSIVE RunAlone(_)
RunAlone(S) ==
    IF Returned(S) = S THEN S
    ELSE RunAlone(UNION { IF c.pc = "done" THEN {c}
                          ELSE CallSteps(c, HISTORICAL_BPM_REGIMES,
                                         DEPRECIATION_TABLE) : c \in S })

\* The results calculate_bpm can return for the arguments of invocation c
\* when it runs alone
ResultsAlone(c) ==
    { d.result : d \in RunAlone({ CallInit([co2_gkm |-> c.co2_gkm,
                       fuel_type |-> c.fuel_type,
                       first_registration_date |-> c.first_registration_date,
                       now |-> c.now]) }) }

\* C21: in every interleaving of the invocations each invocation that has
\* returned has the result it returns when run alone, and the regime catalog
\* and the depreciation table are what they were at the start.
C21_ConcurrentCalls ==
    /\ \A i \in DOMAIN calls :
          calls[i].pc = "done" => calls[i].result \in ResultsAlone(calls[i])
    /\ shared_regimes = HISTORICAL_BPM_REGIMES
    /\ shared_table = DEPRECIATION_TABLE

\* C21 witness: one invocation has returned a result under the 2023 regime
\* while another, entered with other arguments, is in the middle of its loop.
C21_Witness ==
    /\ calls # << >>
    /\ \E i, j \in DOMAIN calls :
          /\ calls[i].pc = "done"
          /\ calls[i].result.regime_year = 2023
          /\ calls[j].pc = "loop"
          /\ calls[j].regime_pos = 2
          /\ calls[j].first_registration_date
               # calls[i].first_registration_date

\* scrape_vehicle has returned INVALID_URL
InvalidUrlReturned ==
    scrape_pc = "returned" /\ scrape_result = ScrapeError("INVALID_URL")

\* The URL is one scrape_vehicle does not accept: detect_source finds no
\* supported site or the Dutch AutoScout24, or there is no listing ID
UrlRejected ==
    \/ detect_source(url) \in {"autoscout24.nl", "unknown"}
    \/ IsFalsy(extract_listing_id(url, detect_source(url)))

StepOrder == << "scrape", "market", "bpm", "valuation", "margin" >>

\* C23: the steps invoked so far are always a beginning of scrape, market
\* search, BPM, valuation, margin; a run that returns success has invoked all
\* five; and when the scrape reports failure the function returns
\* success = false with the scrape's error having invoked the scrape alone.
C23_StepOrder ==
    /\ Len(steps) <= Len(StepOrder)
    /\ steps = SubSeq(StepOrder, 1, Len(steps))
    /\ (import_pc = "returned" /\ response.success) =>
         (steps = StepOrder /\ scrape_fn_result.success)
    /\ (steps # << >> /\ ~scrape_fn_result.success) =>
         /\ import_pc = "returned"
         /\ steps = << "scrape" >>
         /\ response.success = FALSE
         /\ response.error = scrape_fn_result.error
         /\ market_result = ""

\* C23 witness: the scrape failed with LISTING_OFFLINE and the function has
\* returned that error after the scrape step alone.
C23_Witness ==
    /\ import_pc = "returned"
    /\ scrape_fn_result = [success |-> FALSE, error |-> "LISTING_OFFLINE"]
    /\ response.error = "LISTING_OFFLINE"
    /\ steps = << "scrape" >>

\* C24 as stated: a body with co2_gkm a non-negative integer, 0 included, and
\* first_registration_date a valid ISO date is answered with success = true
\* and the BPM breakdown; VALIDATION_ERROR is answered only when co2_gkm or
\* first_registration_date is missing from the body (an empty date string
\* counted as missing).
C24_Original ==
    pc = "responded" =>
      /\ ("co2_gkm" \in DOMAIN body /\ body.co2_gkm >= 0
            /\ "first_registration_date" \in DOMAIN body
            /\ IsIsoDate(body.first_registration_date))
           => (bpm_response.success
                 /\ "restBPM" \in DOMAIN bpm_response.data)
      /\ bpm_response.error = "VALIDATION_ERROR"
           => ("co2_gkm" \notin DOMAIN body
                 \/ "first_registration_date" \notin DOMAIN body
                 \/ body.first_registration_date = << >>)


\* NO_GO below CONSIDER below GO
RecommendationRank(r) ==
    CASE r = "NO_GO" -> 0
      [] r = "CONSIDER" -> 1
      [] r = "GO" -> 2

ApifyTerminated == apify_pc \in {"returned", "raised"}

\* C26: run_apify_actor always terminates when every request completes and
\* the clock advances; it returns the dataset items only after a poll
\* observed SUCCEEDED, raises as soon as a poll observes FAILED, ABORTED or
\* TIMED-OUT, and raises TimeoutError at the first loop iteration that
\* starts more than timeout seconds after polling began (an iteration that
\* starts no later than that polls).
C26_ApifyTerminates ==
    /\ <>ApifyTerminated
    /\ [](apify_pc \in {"fetch", "returned"} => status = "SUCCEEDED")
    /\ [](apify_outcome = "items" => apify_pc = "returned")
    /\ [](status \in FailedStatuses
            => (apify_pc = "raised" /\ apify_outcome = "Exception"))
    /\ [][(apify_pc = "loop" /\ clock - start_time > timeout)
            => (apify_pc' = "raised" /\ apify_outcome' = "TimeoutError")]_vars
    /\ [][(apify_pc = "loop" /\ clock - start_time <= timeout)
            => apify_pc' = "poll"]_vars
    /\ [](apify_outcome = "TimeoutError"
            => (apify_pc = "raised" /\ clock - start_time > timeout))

\* The run was still running at the last poll and the next iteration started
\* too late
C26_Witness ==
    /\ apify_pc = "raised"
    /\ apify_outcome = "TimeoutError"
    /\ status = "RUNNING"
    /\ timeout = MaxTimeout


\* The comparables of the platforms that did not raise, in platform order
InPlatformOrder == Extend(results)

\* The first comparable in platform order with the normalized URL n
FirstWithUrl(n) ==
    InPlatformOrder[FirstIndex({i \in 1..Len(InPlatformOrder) :
        url_normalized(InPlatformOrder[i].listing_url) = n})]

\* C27: search_dutch_market returns, whichever platform searches raised, a
\* list in which no two comparables have the same normalized listing URL
\* and none has an empty URL, in which every comparable is the first one in
\* platform order with its normalized URL, in which every non-empty
\* normalized URL found by a platform that did not raise occurs, and which
\* is in non-decreasing price order.
C27_DeduplicatedSorted ==
    market_pc = "returned" =>
      LET out == unique_comparables
      IN  /\ \A i, j \in 1..Len(out) :
               i # j => url_normalized(out[i].listing_url)
                          # url_normalized(out[j].listing_url)
          /\ \A i \in 1..Len(out) :
               /\ out[i].listing_url # << >>
               /\ out[i] = FirstWithUrl(url_normalized(out[i].listing_url))
          /\ \A k \in 1..Len(InPlatformOrder) :
               url_normalized(InPlatformOrder[k].listing_url) # << >>
                 => \E i \in 1..Len(out) :
                      url_normalized(out[i].listing_url)
                        = url_normalized(InPlatformOrder[k].listing_url)
          /\ \A i \in 1..(Len(out) - 1) :
               out[i].price_eur <= out[i + 1].price_eur
          /\ \A i \in 1..Len(out) :
               \E t \in 1..Len(results) :
                 /\ ~results[t].raised
                 /\ \E k \in 1..Len(results[t].items) :
                      results[t].items[k] = out[i]

\* One platform raised, two others found the same listing under two
\* spellings of its URL, and the first of the two is returned
C27_Witness ==
    /\ market_pc = "returned"
    /\ \E t \in 1..Len(results) : results[t].raised
    /\ Len(InPlatformOrder) = 2
    /\ InPlatformOrder[1].listing_url # InPlatformOrder[2].listing_url
    /\ InPlatformOrder[1].source # InPlatformOrder[2].source
    /\ unique_comparables = << InPlatformOrder[1] >>


\* C28: in every result of calculate_bpm regime_savings is not negative and
\* rest_bpm does not exceed bpm_2026_regime; when a regime is eligible the
\* 2026 regime is among the candidates, and when none is (and on the exempt
\* path) rest_bpm equals bpm_2026_regime and regime_savings is 0.
C28_SavingsNotNegative ==
    /\ (pc \in {"loop", "note", "done"} /\ applicable_regimes # << >>)
         => \E i \in 1..Len(applicable_regimes) :
              applicable_regimes[i] = regime_2026
    /\ (pc = "done" /\ result # NoResult)
         => /\ result.regime_savings >= 0
            /\ result.rest_bpm <= result.bpm_2026_regime
            /\ applicable_regimes = << >>
                 => /\ result.rest_bpm = result.bpm_2026_regime
                    /\ result.regime_savings = 0

\* A result with an older regime cheaper than the 2026 regime
C28_Witness ==
    /\ pc = "done"
    /\ result # NoResult
    /\ result.regime_savings > 0
    /\ result.rest_bpm < result.bpm_2026_regime
    /\ result.regime_year < 2026


\* C29 as stated: in every result of calculate_bpm gross_bpm and
\* diesel_surcharge are the bracket tax and the diesel surcharge of the
\* regime named by regime_year, depreciation_percentage is the table value
\* for vehicle_age_months, and rest_bpm is their sum less the depreciation,
\* rounded to cents; on the normal, the exempt and the fallback path.
C29_Original ==
    (pc = "done" /\ co2_gkm >= 0 /\ IsRecognizedFuel(fuel_type)
       /\ ~IsFutureRegistration) =>
      LET r == HISTORICAL_BPM_REGIMES[
                   CHOOSE i \in 1..Len(HISTORICAL_BPM_REGIMES) :
                       HISTORICAL_BPM_REGIMES[i].year = result.regime_year]
          figures == calculate_bpm_for_regime(co2_gkm, normalized_fuel, r)
      IN  /\ result.gross_bpm = figures[1]
          /\ result.diesel_surcharge = figures[2]
          /\ result.depreciation_percentage
               = get_depreciation_percentage(result.vehicle_age_months)
          /\ IsRoundedNet(result.rest_bpm,
                          result.gross_bpm + result.diesel_surcharge,
                          result.depreciation_percentage)


\* base_percentage + (age - min_months) * monthly_addition of one row
RowValue(age, row) ==
    row.base_percentage + (age - row.min_months) * row.monthly_addition

\* C30 as stated: every row of DEPRECIATION_TABLE whose range of months
\* contains the age yields the same value, the one the lookup returns
\* (capped at 100%), so the result does not depend on which matching row
\* is taken first.
C30_Original ==
    pc = "looked_up" =>
      \A k \in 1..Len(DEPRECIATION_TABLE) :
        DepreciationMatches(age_months, DEPRECIATION_TABLE[k])
          => depreciation
               = (IF RowValue(age_months, DEPRECIATION_TABLE[k]) < 10000
                  THEN RowValue(age_months, DEPRECIATION_TABLE[k])
                  ELSE 10000)

=============================================================================
